---- MODULE Spec2Model ----
(***************************************************************************)
(* srcpkg: the install / upgrade / rollback engine of the source-based     *)
(* package manager in src/script2/srcpkg_with_rollback_and_staging.py.     *)
(*                                                                         *)
(* The persistent state is db.json (installed, owners, history), the live  *)
(* filesystem, the binary cache and the recipe tree.  Every command of the *)
(* CLI is one action; the staged installer and the DB lock are also        *)
(* modelled step by step (specifications SpecTxn and SpecLock), and so    *)
(* are save_db with its unlocked readers (SpecSave) and build_package with *)
(* the build lock (SpecBuild).                                             *)
(***************************************************************************)
EXTENDS Integers, Sequences, FiniteSets, TLC

VARIABLES db, fs, cache, recipe, txn, lock, procs, dbfile, blk, bin

vars == <<db, fs, cache, recipe, txn, lock, procs, dbfile, blk, bin>>

(***************************************************************************)
(* Python dicts are functions whose DOMAIN is the set of keys.             *)
(***************************************************************************)
EmptyDict == [x \in {} |-> x]

Put(f, k, v) == [x \in (DOMAIN f) \cup {k} |-> IF x = k THEN v ELSE f[x]]

Del(f, k) == [x \in (DOMAIN f) \ {k} |-> f[x]]

Take(s, n) == IF Len(s) <= n THEN s ELSE SubSeq(s, 1, n)

(***************************************************************************)
(* The recipe tree and the artifacts its recipes build.                    *)
(***************************************************************************)
ZETA == "lib/zeta"
FOO  == "app/foo"
FORK == "lib/zeta-fork"

\* sorted(...) of the package names (json sort_keys order of db.json)
PkgOrder == <<FOO, ZETA, FORK>>

Pkgs == {PkgOrder[i] : i \in 1..Len(PkgOrder)}

\* sorted(...) of the paths any artifact ships
PathOrder == <<"/d", "/d/a", "/d/f", "/d/g", "/d/l">>

Paths == {PathOrder[i] : i \in 1..Len(PathOrder)}

Root == "/"

Parent(p) == IF p = "/d" THEN Root ELSE "/d"

\* p.count("/")
Depth(p) == IF p = "/d" THEN 1 ELSE 2

\* recipe field depends
Depends(n) == IF n = FOO THEN <<ZETA>> ELSE <<>>

\* versions a recipe of n can carry; the first one is the tree's initial version
Versions(n) == IF n = ZETA THEN <<"1.0", "1.1">>
               ELSE IF n = FOO THEN <<"2.3">> ELSE <<"1.0">>

FileE(h) == [type |-> "file", sha256 |-> h, target |-> ""]
LinkE(t) == [type |-> "symlink", sha256 |-> "", target |-> t]
DirE     == [type |-> "dir", sha256 |-> "", target |-> ""]

\* build_manifest of the DESTDIR that the build of (n, v) populates
BuiltManifest(n, v) ==
  IF n = ZETA /\ v = "1.0"
    THEN [p \in {"/d", "/d/f", "/d/l"} |->
            IF p = "/d" THEN DirE ELSE IF p = "/d/f" THEN FileE("z10") ELSE LinkE("/ext/z")]
  ELSE IF n = ZETA
    THEN [p \in {"/d", "/d/f", "/d/g"} |->
            IF p = "/d" THEN DirE ELSE IF p = "/d/f" THEN FileE("z11") ELSE FileE("g11")]
  ELSE IF n = FOO
    THEN [p \in {"/d", "/d/a"} |-> IF p = "/d" THEN DirE ELSE FileE("a23")]
  ELSE [p \in {"/d", "/d/f"} |-> IF p = "/d" THEN DirE ELSE FileE("k10")]

\* PackageMeta.id
MetaId(n, v) == <<n, v>>

\* artifact_paths(meta)[0]: bin/<id>-<version>.tar.zst
ArtifactPath(n, v) == <<n, v>>

(***************************************************************************)
(* The live filesystem: a dict path -> [kind, data]; a path that is not a  *)
(* key does not exist.  data is the content hash of a file (sha256_file)   *)
(* or the target of a symlink (os.readlink).  Symlink targets lie outside  *)
(* the modelled paths.                                                     *)
(***************************************************************************)
FileF(h) == [kind |-> "file", data |-> h]
LinkF(t) == [kind |-> "symlink", data |-> t]
DirF     == [kind |-> "dir", data |-> ""]

\* abs_path.exists() or abs_path.is_symlink()
LExists(fsx, p) == p \in DOMAIN fsx

IsFileOrLink(info) == info.type \in {"file", "symlink"}

\* the file/symlink paths of a manifest
Owned(manifest) == {p \in DOMAIN manifest : IsFileOrLink(manifest[p])}

\* _empty_db()
EmptyDb == [installed |-> EmptyDict, owners |-> EmptyDict,
            history |-> [n \in Pkgs |-> <<>>]]

\* HISTORY_LIMIT = int(os.environ.get("SRCPKG_HISTORY_LIMIT", "5")): the depth of
\* the history is a setting of the environment
HISTORY_LIMIT == 2

\* Path.mkdir(parents=True, exist_ok=True)
RECURSIVE MkdirP(_, _)
MkdirP(fsx, p) ==
  IF p = Root THEN [fs |-> fsx, ok |-> TRUE]
  ELSE IF p \in DOMAIN fsx THEN [fs |-> fsx, ok |-> fsx[p].kind = "dir"]
  ELSE LET r == MkdirP(fsx, Parent(p))
       IN  IF r.ok THEN [fs |-> Put(r.fs, p, DirF), ok |-> TRUE] ELSE r

\* sorted(dirs, key=lambda x: x.count("/")) ++ sorted(others)
ApplyOrder(manifest) ==
  LET lvl(k) == SelectSeq(PathOrder, LAMBDA p : p \in DOMAIN manifest
                              /\ manifest[p].type = "dir" /\ Depth(p) = k)
  IN  lvl(1) \o lvl(2) \o SelectSeq(PathOrder, LAMBDA p : p \in Owned(manifest))

\* the backup block of _copy_tree_atomic; bkok = FALSE is an exception inside
\* it, which the code swallows
BackupEntry(a, p, bkok) ==
  IF LExists(a.fs, p) /\ a.fs[p].kind \in {"file", "symlink"} /\ bkok
    THEN Put(a.bk, p, a.fs[p])
    ELSE a.bk

\* one iteration of the loops of _copy_tree_atomic, on a = [fs, bk, ok]
ApplyEntry(a, manifest, p, bkok) ==
  IF manifest[p].type = "dir"
    THEN LET r == MkdirP(a.fs, p) IN [fs |-> r.fs, bk |-> a.bk, ok |-> r.ok]
  ELSE
    LET r  == MkdirP(a.fs, Parent(p))
        bk == BackupEntry([fs |-> r.fs, bk |-> a.bk], p, bkok)
        new == IF manifest[p].type = "symlink"
                 THEN LinkF(manifest[p].target) ELSE FileF(manifest[p].sha256)
    IN  IF ~r.ok THEN [fs |-> r.fs, bk |-> a.bk, ok |-> FALSE]
        ELSE IF LExists(r.fs, p) /\ r.fs[p].kind = "dir"
          THEN [fs |-> r.fs, bk |-> bk, ok |-> FALSE]
        ELSE [fs |-> Put(r.fs, p, new), bk |-> bk, ok |-> TRUE]

\* _copy_tree_atomic from entry i of the apply order on
RECURSIVE CopyFrom(_, _, _, _)
CopyFrom(a, manifest, order, i) ==
  IF i > Len(order) \/ ~a.ok THEN a
  ELSE CopyFrom(ApplyEntry(a, manifest, order[i], TRUE), manifest, order, i + 1)

\* _copy_tree_atomic
CopyTreeAtomic(fsx, manifest) ==
  CopyFrom([fs |-> fsx, bk |-> EmptyDict, ok |-> TRUE], manifest, ApplyOrder(manifest), 1)

\* _rollback_local_from_backups: every saved entry is put back; an exception
\* while restoring one entry is swallowed, and shutil.copy2 onto a symlink
\* writes through it
RollbackLocal(fsx, bk) ==
  [p \in (DOMAIN fsx) \cup (DOMAIN bk) |->
     IF p \notin DOMAIN bk THEN fsx[p]
     ELSE IF p \notin DOMAIN fsx THEN bk[p]
     ELSE IF fsx[p].kind = "dir" THEN fsx[p]
     ELSE IF bk[p].kind = "file" /\ fsx[p].kind = "symlink" THEN fsx[p]
     ELSE bk[p]]

\* legacy mode: zstd -d | tar -xpf - -C /
TarExtract(fsx, manifest) ==
  [p \in (DOMAIN fsx) \cup (DOMAIN manifest) |->
     IF p \notin DOMAIN manifest THEN fsx[p]
     ELSE IF manifest[p].type = "dir" THEN DirF
     ELSE IF manifest[p].type = "symlink" THEN LinkF(manifest[p].target)
     ELSE FileF(manifest[p].sha256)]

(***************************************************************************)
(* install_binary                                                          *)
(***************************************************************************)
\* Phase 1, first test: owners[p] names another package
OwnedByOther(mem, full, manifest) ==
  {p \in Owned(manifest) : p \in DOMAIN mem.owners /\ mem.owners[p] # full}

\* a conflict loop that never looks at the filesystem
UnownedExistingUnchecked(mem, fsx, manifest) == {}

\* Phase 1, second test: p exists on the filesystem and has no owner
UnownedExisting(mem, fsx, manifest) ==
  {p \in Owned(manifest) : LExists(fsx, p) /\ p \notin DOMAIN mem.owners}

\* a conflict loop in which force also silences the test of the owner
ConflictForceAll(mem, fsx, full, manifest, force) ==
  ~force /\ (OwnedByOther(mem, full, manifest) # {} \/ UnownedExisting(mem, fsx, manifest) # {})

\* the conflict loop of install_binary raises SystemExit
Conflict(mem, fsx, full, manifest, force) ==
  \/ OwnedByOther(mem, full, manifest) # {}
  \/ (UnownedExisting(mem, fsx, manifest) # {} /\ ~force)

\* a push at the tail of history[full]
PushHistoryTail(mem, full) ==
  IF full \in DOMAIN mem.installed
    THEN [mem EXCEPT !.history[full] =
            Take(mem.history[full] \o <<mem.installed[full]>>, HISTORY_LIMIT)]
    ELSE mem

\* a push without the cut to HISTORY_LIMIT
PushHistoryUncut(mem, full) ==
  IF full \in DOMAIN mem.installed
    THEN [mem EXCEPT !.history[full] = <<mem.installed[full]>> \o mem.history[full]]
    ELSE mem

\* Phase 2: the installed record moves to the head of history[full]
PushHistory(mem, full) ==
  IF full \in DOMAIN mem.installed
    THEN [mem EXCEPT !.history[full] =
            Take(<<mem.installed[full]>> \o mem.history[full], HISTORY_LIMIT)]
    ELSE mem

\* the record install_binary writes
NewRecord(full, v, depends, manifest, explicit, pkg_path) ==
  [version |-> v, id |-> MetaId(full, v), depends |-> depends, manifest |-> manifest,
   explicit |-> explicit, artifact |-> pkg_path]

\* Phase 5: owners of every file/symlink entry and the installed record
Commit(mem, full, rec) ==
  [mem EXCEPT
     !.owners = [p \in (DOMAIN mem.owners) \cup Owned(rec.manifest) |->
                   IF p \in Owned(rec.manifest) THEN full ELSE mem.owners[p]],
     !.installed = Put(mem.installed, full, rec)]

\* an install_binary that applies the files before it looks for conflicts
InstallBinaryApplyFirst(s, full, rec, force, use_staging) ==
  LET pushed == PushHistory(s.mem, full)
      a      == CopyTreeAtomic(s.fs, rec.manifest)
      done   == Commit(pushed, full, rec)
  IN  IF Conflict(s.mem, s.fs, full, rec.manifest, force)
        THEN [s EXCEPT !.status = "conflict", !.fs = a.fs]
      ELSE IF ~a.ok
        THEN [s EXCEPT !.status = "fatal", !.mem = pushed,
                       !.fs = RollbackLocal(a.fs, a.bk)]
      ELSE [s EXCEPT !.mem = done, !.db = done, !.fs = a.fs]

\* an install_binary whose legacy mode neither looks for conflicts nor pushes
\* the replaced record onto the history
InstallBinaryLegacyApart(s, full, rec, force, use_staging) ==
  IF ~use_staging
    THEN [s EXCEPT !.mem = Commit(s.mem, full, rec), !.db = Commit(s.mem, full, rec),
                   !.fs = TarExtract(s.fs, rec.manifest)]
  ELSE IF Conflict(s.mem, s.fs, full, rec.manifest, force)
    THEN [s EXCEPT !.status = "conflict"]
  ELSE
    LET pushed == PushHistory(s.mem, full)
        a      == CopyTreeAtomic(s.fs, rec.manifest)
        done   == Commit(pushed, full, rec)
    IN  IF ~a.ok
          THEN [s EXCEPT !.status = "fatal", !.mem = pushed,
                         !.fs = RollbackLocal(a.fs, a.bk)]
        ELSE [s EXCEPT !.mem = done, !.db = done, !.fs = a.fs]

\* install_binary(meta, pkg_path, manifest, db, force, explicit, use_staging)
\* on the command state s = [mem, db, fs, cache, status, kept]: mem is the
\* dict the command loaded, db is db.json.  status becomes "conflict"
\* (SystemExit of Phase 1) or "fatal" (an exception of Phase 4, after the
\* local rollback); rec carries meta, manifest, explicit and pkg_path
InstallBinary(s, full, rec, force, use_staging) ==
  IF Conflict(s.mem, s.fs, full, rec.manifest, force)
    THEN [s EXCEPT !.status = "conflict"]
  ELSE
    LET pushed == PushHistory(s.mem, full)
        a      == CopyTreeAtomic(s.fs, rec.manifest)
        done   == Commit(pushed, full, rec)
    IN  IF ~use_staging
          THEN [s EXCEPT !.mem = done, !.db = done,
                         !.fs = TarExtract(s.fs, rec.manifest)]
        ELSE IF ~a.ok
          THEN [s EXCEPT !.status = "fatal", !.mem = pushed,
                         !.fs = RollbackLocal(a.fs, a.bk)]
        ELSE [s EXCEPT !.mem = done, !.db = done, !.fs = a.fs]

(***************************************************************************)
(* uninstall_package                                                       *)
(***************************************************************************)
\* sorted(entries.keys(), key=lambda p: (p.count("/"), p), reverse=True)
RECURSIVE Reverse(_)
Reverse(q) == IF q = <<>> THEN <<>> ELSE Append(Reverse(Tail(q)), Head(q))

UninstallOrder(manifest) ==
  LET lvl(k) == SelectSeq(PathOrder, LAMBDA p : p \in DOMAIN manifest /\ Depth(p) = k)
  IN  Reverse(lvl(1) \o lvl(2))

\* abs_path.rmdir() succeeds on an empty directory only
IsEmptyDir(fsx, p) == \A q \in DOMAIN fsx : Parent(q) # p

\* a removal loop that unlinks an owned file without comparing its hash
RemoveEntryNoHash(u, owners, full, manifest, p) ==
  LET info == manifest[p]
      mine == p \in DOMAIN owners /\ owners[p] = full
      here == LExists(u.fs, p)
  IN  IF info.type \in {"file", "symlink"} /\ ~mine THEN u
      ELSE IF info.type = "symlink"
        THEN IF here /\ u.fs[p].kind = "symlink"
               THEN [u EXCEPT !.fs = Del(u.fs, p), !.removed = @ \cup {p}]
               ELSE u
      ELSE IF info.type = "file"
        THEN IF here /\ u.fs[p].kind = "file"
               THEN [u EXCEPT !.fs = Del(u.fs, p), !.removed = @ \cup {p}]
               ELSE u
      ELSE IF info.type = "dir"
        THEN IF here /\ u.fs[p].kind = "dir" /\ IsEmptyDir(u.fs, p)
               THEN [u EXCEPT !.fs = Del(u.fs, p)]
               ELSE u
      ELSE u

\* one iteration of the removal loop, on u = [fs, removed, kept]
RemoveEntry(u, owners, full, manifest, p) ==
  LET info == manifest[p]
      mine == p \in DOMAIN owners /\ owners[p] = full
      here == LExists(u.fs, p)
  IN  IF info.type \in {"file", "symlink"} /\ ~mine THEN u
      ELSE IF info.type = "symlink"
        THEN IF here /\ u.fs[p].kind = "symlink"
               THEN [u EXCEPT !.fs = Del(u.fs, p), !.removed = @ \cup {p}]
               ELSE u
      ELSE IF info.type = "file"
        THEN IF here /\ u.fs[p].kind = "file"
               THEN IF info.sha256 # "" /\ u.fs[p].data # info.sha256
                      THEN [u EXCEPT !.kept = @ \cup {p}]
                      ELSE [u EXCEPT !.fs = Del(u.fs, p), !.removed = @ \cup {p}]
               ELSE u
      ELSE IF info.type = "dir"
        THEN IF here /\ u.fs[p].kind = "dir" /\ IsEmptyDir(u.fs, p)
               THEN [u EXCEPT !.fs = Del(u.fs, p)]
               ELSE u
      ELSE u

RECURSIVE RemoveFrom(_, _, _, _, _, _)
RemoveFrom(u, owners, full, manifest, order, i) ==
  IF i > Len(order) THEN u
  ELSE RemoveFrom(RemoveEntry(u, owners, full, manifest, order[i]),
                  owners, full, manifest, order, i + 1)

\* the owners update after the loop: only the removed paths are popped
DropOwners(owners, full, removed) ==
  [p \in {q \in DOMAIN owners : ~(q \in removed /\ owners[q] = full)} |-> owners[p]]

\* uninstall_package(pkg_full, db) on s = [mem, db, fs, cache]
UninstallPackage(s, full) ==
  IF full \notin DOMAIN s.mem.installed
    THEN [s EXCEPT !.status = "fatal"]
  ELSE
    LET manifest == s.mem.installed[full].manifest
        u   == RemoveFrom([fs |-> s.fs, removed |-> {}, kept |-> {}], s.mem.owners,
                          full, manifest, UninstallOrder(manifest), 1)
        mem == [s.mem EXCEPT !.owners = DropOwners(s.mem.owners, full, u.removed),
                             !.installed = Del(s.mem.installed, full)]
    IN  [s EXCEPT !.mem = mem, !.db = mem, !.fs = u.fs, !.kept = u.kept]

(***************************************************************************)
(* build_package, resolve_with_deps, topo_sort                             *)
(***************************************************************************)
\* build_package: a cache hit returns the stored manifest, a miss builds the
\* artifact and its manifest into the binary cache
BuildPackage(cch, n, v) == cch \cup {ArtifactPath(n, v)}

\* resolve_with_deps: the keys of metas in insertion order
RECURSIVE Rec(_, _), RecList(_, _, _)
Rec(metas, p) ==
  IF \E i \in 1..Len(metas) : metas[i] = p THEN metas
  ELSE RecList(Append(metas, p), Depends(p), 1)

RecList(metas, deps, i) ==
  IF i > Len(deps) THEN metas ELSE RecList(Rec(metas, deps[i]), deps, i + 1)

ResolveWithDeps(root) == Rec(<<>>, root)

\* topo_sort: three-colour depth-first search over graph[name] = depends
RECURSIVE Dfs(_, _, _), DfsList(_, _, _, _)
Dfs(t, keys, n) ==
  IF t.cycle \/ n \in t.perm THEN t
  ELSE IF n \in t.temp THEN [t EXCEPT !.cycle = TRUE]
  ELSE
    LET deps == IF \E i \in 1..Len(keys) : keys[i] = n THEN Depends(n) ELSE <<>>
        t1   == DfsList([t EXCEPT !.temp = @ \cup {n}], keys, deps, 1)
    IN  IF t1.cycle THEN t1
        ELSE [t1 EXCEPT !.temp = @ \ {n}, !.perm = @ \cup {n}, !.order = Append(@, n)]

DfsList(t, keys, ds, i) ==
  IF i > Len(ds) \/ t.cycle THEN t
  ELSE DfsList(Dfs(t, keys, ds[i]), keys, ds, i + 1)

TopoSort(keys) ==
  DfsList([temp |-> {}, perm |-> {}, order |-> <<>>, cycle |-> FALSE], keys, keys, 1)

InSeq(q, x) == \E i \in 1..Len(q) : q[i] = x

\* the keys of a dict read from db.json, which save_db writes with sort_keys
SortedKeys(S) == SelectSeq(PkgOrder, LAMBDA n : n \in S)

(***************************************************************************)
(* The commands.  Each one takes the DB lock, loads db.json and runs to    *)
(* its end or to its first fatal error.                                    *)
(***************************************************************************)
\* with db_lock(): db = load_db()
Start == [mem |-> db, db |-> db, fs |-> fs, cache |-> cache, status |-> "ok", kept |-> {}]

\* a loop that passes over every package of the order but the requested one
RECURSIVE InstallLoopRootOnly(_, _, _, _, _, _)
InstallLoopRootOnly(s, order, i, root, force, use_staging) ==
  IF i > Len(order) \/ s.status # "ok" THEN s
  ELSE
    LET p    == order[i]
        v    == recipe[p]
        hit  == ArtifactPath(p, v) \in s.cache
        same == p \in DOMAIN s.mem.installed /\ s.mem.installed[p].version = v
        rec  == NewRecord(p, v, Depends(p), BuiltManifest(p, v), p = root, ArtifactPath(p, v))
        built == [s EXCEPT !.cache = BuildPackage(s.cache, p, v)]
    IN  IF (hit /\ same) \/ p # root
          THEN InstallLoopRootOnly(s, order, i + 1, root, force, use_staging)
          ELSE InstallLoopRootOnly(InstallBinary(built, p, rec, force, use_staging),
                                   order, i + 1, root, force, use_staging)

\* the loop of resolve_and_install over the topological order
RECURSIVE InstallLoop(_, _, _, _, _, _)
InstallLoop(s, order, i, root, force, use_staging) ==
  IF i > Len(order) \/ s.status # "ok" THEN s
  ELSE
    LET p    == order[i]
        v    == recipe[p]
        hit  == ArtifactPath(p, v) \in s.cache
        same == p \in DOMAIN s.mem.installed /\ s.mem.installed[p].version = v
        rec  == NewRecord(p, v, Depends(p), BuiltManifest(p, v), p = root, ArtifactPath(p, v))
        built == [s EXCEPT !.cache = BuildPackage(s.cache, p, v)]
    IN  IF hit /\ same
          THEN InstallLoop(s, order, i + 1, root, force, use_staging)
          ELSE InstallLoop(InstallBinary(built, p, rec, force, use_staging),
                           order, i + 1, root, force, use_staging)

\* resolve_and_install(pkg_full, force, use_staging), from the loaded state s
ResolveAndInstall(s, root, force, use_staging) ==
  LET t == TopoSort(ResolveWithDeps(root))
  IN  IF t.cycle THEN [s EXCEPT !.status = "fatal"]
      ELSE InstallLoop(s, t.order, 1, root, force, use_staging)

\* the loop of rebuild_all and of upgrade_changed; metas[full] raises KeyError
\* for a name of the order that is not a key of metas
RECURSIVE RebuildLoop(_, _, _, _, _)
RebuildLoop(s, keys, order, i, use_staging) ==
  IF i > Len(order) \/ s.status # "ok" THEN s
  ELSE
    LET p   == order[i]
        v   == recipe[p]
        explicit == IF p \in DOMAIN s.mem.installed
                      THEN s.mem.installed[p].explicit ELSE FALSE
        rec == NewRecord(p, v, Depends(p), BuiltManifest(p, v), explicit, ArtifactPath(p, v))
        built == [s EXCEPT !.cache = BuildPackage(s.cache, p, v)]
    IN  IF ~InSeq(keys, p) THEN [s EXCEPT !.status = "crash"]
        ELSE RebuildLoop(InstallBinary(built, p, rec, FALSE, use_staging),
                         keys, order, i + 1, use_staging)

RebuildKeys(s, keys, use_staging) ==
  LET t == TopoSort(keys)
  IN  IF keys = <<>> THEN s
      ELSE IF t.cycle THEN [s EXCEPT !.status = "fatal"]
      ELSE RebuildLoop(s, keys, t.order, 1, use_staging)

\* rebuild_all(use_staging)
RebuildAll(s, use_staging) ==
  RebuildKeys(s, SortedKeys(DOMAIN s.mem.installed), use_staging)

\* upgrade_changed(use_staging)
UpgradeChanged(s, use_staging) ==
  RebuildKeys(s, SortedKeys({n \in DOMAIN s.mem.installed :
                                s.mem.installed[n].version # recipe[n]}), use_staging)

\* rollback, lines 1488-1493: the head of history[full] is popped and the
\* installed record pushed in its place
RollbackPrepare(mem, full) ==
  [mem EXCEPT !.history[full] =
     Take(<<mem.installed[full]>> \o Tail(mem.history[full]), HISTORY_LIMIT)]

\* a rollback to the oldest record of history[full]
RollbackOldest(s, full, force, use_staging) ==
  IF full \notin DOMAIN s.mem.installed \/ s.mem.history[full] = <<>>
    THEN [s EXCEPT !.status = "fatal"]
  ELSE
    LET target == s.mem.history[full][Len(s.mem.history[full])]
        rec    == NewRecord(full, target.version, target.depends, target.manifest,
                            target.explicit, target.artifact)
    IN  IF target.artifact \notin s.cache \/ DOMAIN target.manifest = {}
          THEN [s EXCEPT !.status = "fatal"]
          ELSE InstallBinary([s EXCEPT !.mem = RollbackPrepare(s.mem, full)],
                             full, rec, force, use_staging)

\* a rollback that does not look for the artifact in the cache
RollbackNoArtifactTest(s, full, force, use_staging) ==
  IF full \notin DOMAIN s.mem.installed \/ s.mem.history[full] = <<>>
    THEN [s EXCEPT !.status = "fatal"]
  ELSE
    LET target == Head(s.mem.history[full])
        rec    == NewRecord(full, target.version, target.depends, target.manifest,
                            target.explicit, target.artifact)
    IN  IF DOMAIN target.manifest = {}
          THEN [s EXCEPT !.status = "fatal"]
          ELSE InstallBinary([s EXCEPT !.mem = RollbackPrepare(s.mem, full)],
                             full, rec, force, use_staging)

\* rollback(pkg_full, force, use_staging)
Rollback(s, full, force, use_staging) ==
  IF full \notin DOMAIN s.mem.installed \/ s.mem.history[full] = <<>>
    THEN [s EXCEPT !.status = "fatal"]
  ELSE
    LET target == Head(s.mem.history[full])
        rec    == NewRecord(full, target.version, target.depends, target.manifest,
                            target.explicit, target.artifact)
    IN  IF target.artifact \notin s.cache \/ DOMAIN target.manifest = {}
          THEN [s EXCEPT !.status = "fatal"]
          ELSE InstallBinary([s EXCEPT !.mem = RollbackPrepare(s.mem, full)],
                             full, rec, force, use_staging)

\* a stack loop that never pushes the dependencies
ClosureRootsOnly(installed, req) == req

\* the stack loop of autoremove: explicit packages and their installed
\* dependencies, transitively
RECURSIVE Closure(_, _)
Closure(installed, req) ==
  LET more == {d \in DOMAIN installed :
                 \E p \in req : p \in DOMAIN installed /\ InSeq(installed[p].depends, d)}
  IN  IF more \subseteq req THEN req ELSE Closure(installed, req \cup more)

Required(installed) ==
  Closure(installed, {p \in DOMAIN installed : installed[p].explicit})

Candidates(installed) ==
  {p \in DOMAIN installed : ~installed[p].explicit /\ p \notin Required(installed)}

RECURSIVE UninstallAll(_, _, _)
UninstallAll(s, order, i) ==
  IF i > Len(order) \/ s.status # "ok" THEN s
  ELSE UninstallAll(UninstallPackage(s, order[i]), order, i + 1)

\* autoremove()
Autoremove(s) ==
  IF {p \in DOMAIN s.mem.installed : s.mem.installed[p].explicit} = {} THEN s
  ELSE UninstallAll(s, SortedKeys(Candidates(s.mem.installed)), 1)

(***************************************************************************)
(* Specification Spec: any sequence of commands, with the user editing the *)
(* recipe tree and writing files in between.                               *)
(***************************************************************************)
\* a file as a reader finds it: part is "absent", "empty" (created or
\* truncated by open), "partial" or "complete"; data is what is being written
Raw(data, part) == [data |-> data, part |-> part]

\* db.json and db.tmp before the first save_db
NoDbFiles == [json |-> Raw(EmptyDb, "absent"), tmp |-> Raw(EmptyDb, "absent")]

\* the (full_name, version) pairs of the recipe tree: one id, one build
\* directory, one build lock and one pair of cache files each
Ids == UNION {{<<n, Versions(n)[i]>> : i \in 1..Len(Versions(n))} : n \in Pkgs}

\* build/<id>/ and bin/<id>-<version>.{tar.zst,manifest.json}, nothing built
NoBin == [id \in Ids |-> [work |-> "absent", pkg |-> "absent", man |-> "absent"]]

IdleTxn == [phase |-> "idle"]

NoProcs == [p \in {} |-> p]

Init ==
  /\ db = EmptyDb
  /\ fs = EmptyDict
  /\ cache = {}
  /\ recipe = [n \in Pkgs |-> Versions(n)[1]]
  /\ txn = IdleTxn
  /\ lock = {}
  /\ procs = NoProcs
  /\ dbfile = NoDbFiles
  /\ blk = {}
  /\ bin = NoBin

Ran(s) ==
  /\ db' = s.db
  /\ fs' = s.fs
  /\ cache' = s.cache
  /\ UNCHANGED <<dbfile, blk, bin, recipe, txn, lock, procs>>

CmdInstall(n, force) == Ran(ResolveAndInstall(Start, n, force, TRUE))

CmdRebuildAll == Ran(RebuildAll(Start, TRUE))

CmdUpgrade == Ran(UpgradeChanged(Start, TRUE))

CmdRollback(n, force) == Ran(Rollback(Start, n, force, TRUE))

CmdUninstall(n) == Ran(UninstallPackage(Start, n))

CmdAutoremove == Ran(Autoremove(Start))

\* the user edits a recipe to its next version, between two commands
EditRecipe(n) ==
  /\ txn.phase # "apply"
  /\ \E i \in 1..(Len(Versions(n)) - 1) :
        recipe[n] = Versions(n)[i] /\ recipe' = [recipe EXCEPT ![n] = Versions(n)[i + 1]]
  /\ txn' = IdleTxn
  /\ UNCHANGED <<dbfile, blk, bin, db, fs, cache, lock, procs>>

\* paths the user writes to behind the package manager's back
UserPaths == {"/d/f", "/d/g"}

UserWrite(p) ==
  /\ txn.phase # "apply"
  /\ MkdirP(fs, Parent(p)).ok
  /\ ~(LExists(fs, p) /\ fs[p].kind = "dir")
  /\ fs' = Put(MkdirP(fs, Parent(p)).fs, p, FileF("user"))
  /\ txn' = IdleTxn
  /\ UNCHANGED <<dbfile, blk, bin, db, cache, recipe, lock, procs>>

Next ==
  \/ \E n \in Pkgs, force \in BOOLEAN : CmdInstall(n, force)
  \/ CmdRebuildAll
  \/ CmdUpgrade
  \/ \E n \in Pkgs, force \in BOOLEAN : CmdRollback(n, force)
  \/ \E n \in Pkgs : CmdUninstall(n)
  \/ CmdAutoremove
  \/ \E n \in Pkgs : EditRecipe(n)
  \/ \E p \in UserPaths : UserWrite(p)

Spec == Init /\ [][Next]_vars

(***************************************************************************)
(* Specification SpecTxn: the staged install_binary step by step.  Phase 1 *)
(* to 3 are one step; every entry that _copy_tree_atomic applies is one    *)
(* step; an exception or an interrupt can arrive before any of them.       *)
(***************************************************************************)
\* Phases 1-3: conflict check, history push in the loaded dict, staging
TxnBegin(n, force) ==
  LET v   == recipe[n]
      rec == NewRecord(n, v, Depends(n), BuiltManifest(n, v), TRUE, ArtifactPath(n, v))
      t   == [phase |-> "apply", full |-> n, rec |-> rec, force |-> force,
              order |-> ApplyOrder(rec.manifest), i |-> 1, bk |-> EmptyDict,
              mem |-> PushHistory(db, n), pre |-> [db |-> db, fs |-> fs]]
  IN  /\ txn.phase # "apply"
      /\ cache' = BuildPackage(cache, n, v)
      /\ txn' = IF Conflict(db, fs, n, rec.manifest, force)
                  THEN [t EXCEPT !.phase = "conflict", !.mem = db] ELSE t
      /\ UNCHANGED <<dbfile, blk, bin, db, fs, recipe, lock, procs>>

\* a handler that re-raises without the local rollback
ErrorHandlerNoRollback(fsx, t) == fsx

\* except Exception: _rollback_local_from_backups(...); raise
ErrorHandler(fsx, t) == RollbackLocal(fsx, t.bk)

\* Phase 4, one entry; the backup may raise inside its own try block
TxnApply(bkok) ==
  /\ txn.phase = "apply"
  /\ txn.i <= Len(txn.order)
  /\ LET a == ApplyEntry([fs |-> fs, bk |-> txn.bk, ok |-> TRUE],
                         txn.rec.manifest, txn.order[txn.i], bkok)
     IN  IF a.ok
           THEN /\ fs' = a.fs
                /\ txn' = [txn EXCEPT !.bk = a.bk, !.i = @ + 1]
           ELSE /\ fs' = ErrorHandler(a.fs, [txn EXCEPT !.bk = a.bk])
                /\ txn' = [txn EXCEPT !.bk = a.bk, !.phase = "failed"]
  /\ UNCHANGED <<dbfile, blk, bin, db, cache, recipe, lock, procs>>

\* Phase 4 raises an Exception at entry i: before the entry touched its
\* destination (mkdir, the copy to the temp sibling), or in os.symlink after
\* the old destination was backed up and unlinked
TxnRaise ==
  /\ txn.phase = "apply"
  /\ txn.i <= Len(txn.order)
  /\ LET p == txn.order[txn.i]
         b == BackupEntry([fs |-> fs, bk |-> txn.bk], p, TRUE)
     IN  \/ /\ fs' = ErrorHandler(fs, txn)
            /\ txn' = [txn EXCEPT !.phase = "failed"]
         \/ /\ txn.rec.manifest[p].type = "symlink"
            /\ LExists(fs, p)
            /\ fs' = ErrorHandler(Del(fs, p), [txn EXCEPT !.bk = b])
            /\ txn' = [txn EXCEPT !.bk = b, !.phase = "failed"]
  /\ UNCHANGED <<dbfile, blk, bin, db, cache, recipe, lock, procs>>

\* KeyboardInterrupt anywhere between staging and the commit: it is no
\* Exception, so the handler does not run, and the stage and the backups go
\* with the TemporaryDirectory
TxnInterrupt ==
  /\ txn.phase = "apply"
  /\ txn' = [txn EXCEPT !.phase = "interrupted"]
  /\ UNCHANGED <<dbfile, blk, bin, db, fs, cache, recipe, lock, procs>>

\* Phase 5: owners, installed, save_db
TxnCommit ==
  /\ txn.phase = "apply"
  /\ txn.i > Len(txn.order)
  /\ db' = Commit(txn.mem, txn.full, txn.rec)
  /\ txn' = [txn EXCEPT !.phase = "done"]
  /\ UNCHANGED <<dbfile, blk, bin, fs, cache, recipe, lock, procs>>

NextTxn ==
  \/ \E n \in Pkgs, force \in BOOLEAN : TxnBegin(n, force)
  \/ \E bkok \in BOOLEAN : TxnApply(bkok)
  \/ TxnRaise
  \/ TxnInterrupt
  \/ TxnCommit
  \/ \E n \in Pkgs : EditRecipe(n)
  \/ \E p \in UserPaths : UserWrite(p)

SpecTxn == Init /\ [][NextTxn]_vars

(***************************************************************************)
(* Specification SpecLock: concurrent commands.  Each process runs main's  *)
(* DB-mutating commands, all of the shape  with db_lock(): db = load_db(); *)
(* body : it opens db.lock, takes flock(LOCK_EX), loads db.json, runs the  *)
(* body (which saves db.json through install_binary or uninstall_package)  *)
(* and releases the lock.                                                  *)
(***************************************************************************)
\* the two concurrently started processes
Procs == {"p1", "p2"}

\* commands the two processes start, all in all
MaxCmds == 3

CmdNames == {"i", "uninstall", "rb", "u", "rollback", "autoremove"}

IdleProc ==
  [pc |-> "idle", cmd |-> "i", root |-> ZETA, force |-> FALSE, mem |-> EmptyDb,
   status |-> "ok", started |-> 0]

RECURSIVE Started(_, _)
Started(pr, S) ==
  IF S = {} THEN 0
  ELSE LET p == CHOOSE q \in S : TRUE IN pr[p].started + Started(pr, S \ {p})

InitLock ==
  /\ db = EmptyDb
  /\ fs = EmptyDict
  /\ cache = {}
  /\ recipe = [n \in Pkgs |-> Versions(n)[1]]
  /\ txn = IdleTxn
  /\ lock = {}
  /\ procs = [p \in Procs |-> IdleProc]
  /\ dbfile = NoDbFiles
  /\ blk = {}
  /\ bin = NoBin

\* main dispatches args.cmd; db_lock opens the lock file
LockStart(p, c, n, force) ==
  /\ procs[p].pc \in {"idle", "done"}
  /\ Started(procs, Procs) < MaxCmds
  /\ c \in {"i", "rollback"} \/ ~force
  /\ c \in {"i", "rollback", "uninstall"} \/ n = ZETA
  /\ procs' = [procs EXCEPT ![p] = [pc |-> "waiting", cmd |-> c, root |-> n, force |-> force,
                                     mem |-> EmptyDb, status |-> "ok",
                                     started |-> @.started + 1]]
  /\ UNCHANGED <<dbfile, blk, bin, db, fs, cache, recipe, txn, lock>>

\* a lock that is granted while another process holds it
LockAcquireShared(p) ==
  /\ procs[p].pc = "waiting"
  /\ lock' = lock \cup {p}
  /\ procs' = [procs EXCEPT ![p].pc = "locked"]
  /\ UNCHANGED <<dbfile, blk, bin, db, fs, cache, recipe, txn>>

\* fcntl.flock(f, fcntl.LOCK_EX) returns once no other process holds the lock
LockAcquire(p) ==
  /\ procs[p].pc = "waiting"
  /\ lock = {}
  /\ lock' = lock \cup {p}
  /\ procs' = [procs EXCEPT ![p].pc = "locked"]
  /\ UNCHANGED <<dbfile, blk, bin, db, fs, cache, recipe, txn>>

\* db = load_db(), the first statement of the command under the lock
LockLoad(p) ==
  /\ procs[p].pc = "locked"
  /\ procs' = [procs EXCEPT ![p].pc = "loaded", ![p].mem = db]
  /\ UNCHANGED <<dbfile, blk, bin, db, fs, cache, recipe, txn, lock>>

\* the body of the command on the loaded dict, its save_db calls included
Body(s, c, n, force) ==
  IF c = "i" THEN ResolveAndInstall(s, n, force, TRUE)
  ELSE IF c = "uninstall" THEN UninstallPackage(s, n)
  ELSE IF c = "rb" THEN RebuildAll(s, TRUE)
  ELSE IF c = "u" THEN UpgradeChanged(s, TRUE)
  ELSE IF c = "rollback" THEN Rollback(s, n, force, TRUE)
  ELSE Autoremove(s)

LockRun(p) ==
  /\ procs[p].pc = "loaded"
  /\ LET s == [mem |-> procs[p].mem, db |-> db, fs |-> fs, cache |-> cache,
               status |-> "ok", kept |-> {}]
         r == Body(s, procs[p].cmd, procs[p].root, procs[p].force)
     IN  /\ db' = r.db
         /\ fs' = r.fs
         /\ cache' = r.cache
         /\ procs' = [procs EXCEPT ![p].pc = "ran", ![p].mem = r.mem, ![p].status = r.status]
  /\ UNCHANGED <<dbfile, blk, bin, recipe, txn, lock>>

\* finally: fcntl.flock(f, fcntl.LOCK_UN), on success and on fatal alike;
\* the process exits and its dict goes with it
LockRelease(p) ==
  /\ procs[p].pc = "ran"
  /\ lock' = lock \ {p}
  /\ procs' = [procs EXCEPT ![p].pc = "done", ![p].mem = EmptyDb]
  /\ UNCHANGED <<dbfile, blk, bin, db, fs, cache, recipe, txn>>

NextLock ==
  \/ \E p \in Procs, c \in CmdNames, n \in Pkgs, force \in BOOLEAN : LockStart(p, c, n, force)
  \/ \E p \in Procs : LockAcquire(p)
  \/ \E p \in Procs : LockLoad(p)
  \/ \E p \in Procs : LockRun(p)
  \/ \E p \in Procs : LockRelease(p)
  \/ \E n \in Pkgs : EditRecipe(n)

SpecLock == InitLock /\ [][NextLock]_vars

(***************************************************************************)
(* Specification SpecSave: save_db step by step, at the end of             *)
(* install_binary and of uninstall_package, with list, verify and doctor   *)
(* calling load_db at any moment without the lock.  db is what db.json     *)
(* holds once a save is complete; dbfile is the two files as they are.     *)
(***************************************************************************)
Readers == {"l", "verify", "doctor"}

NoRead == [got |-> FALSE, seen |-> Raw(EmptyDb, "absent"), tmp |-> "absent"]

InitSave ==
  /\ db = EmptyDb
  /\ fs = EmptyDict
  /\ cache = {}
  /\ recipe = [n \in Pkgs |-> Versions(n)[1]]
  /\ txn = IdleTxn
  /\ lock = {}
  /\ procs = [r \in Readers |-> NoRead]
  /\ dbfile = NoDbFiles
  /\ blk = {}
  /\ bin = NoBin

\* load_db: a missing file and a file json.loads rejects are the empty DB
LoadDb(raw) == IF raw.part = "complete" THEN raw.data ELSE EmptyDb

\* a save_db that writes db.json in place
SaveTargetInPlace == "json"

\* tmp = DB_PATH.with_suffix(".tmp"): the file write_text writes to
SaveTarget == "tmp"

\* Path.write_text, one step: open truncates, then the text goes out in parts
WriteText(raw, data) ==
  IF raw.part = "empty" /\ raw.data = data THEN Raw(data, "partial")
  ELSE IF raw.part = "partial" /\ raw.data = data THEN Raw(data, "complete")
  ELSE Raw(data, "empty")

\* install_binary or uninstall_package up to its call of save_db, and the
\* open of the file save_db writes
SaveBegin(op, n, force) ==
  LET r == IF op = "install"
             THEN InstallBinary(Start, n, NewRecord(n, recipe[n], Depends(n),
                      BuiltManifest(n, recipe[n]), TRUE, ArtifactPath(n, recipe[n])),
                      force, TRUE)
             ELSE UninstallPackage(Start, n)
  IN  /\ txn.phase = "idle"
      /\ \A q \in Readers : ~procs[q].got
      /\ op = "install" \/ ~force
      /\ r.status = "ok"
      /\ fs' = r.fs
      /\ cache' = IF op = "install" THEN BuildPackage(cache, n, recipe[n]) ELSE cache
      /\ txn' = [phase |-> "save", old |-> db, new |-> r.mem]
      /\ dbfile' = [dbfile EXCEPT ![SaveTarget] = WriteText(Raw(EmptyDb, "absent"), r.mem)]
      /\ UNCHANGED <<db, recipe, lock, procs, blk, bin>>

\* write_text goes on
SaveWrite ==
  /\ txn.phase = "save"
  /\ dbfile[SaveTarget].part \in {"empty", "partial"}
  /\ dbfile' = [dbfile EXCEPT ![SaveTarget] = WriteText(@, txn.new)]
  /\ UNCHANGED <<db, fs, cache, recipe, txn, lock, procs, blk, bin>>

\* tmp.replace(DB_PATH)
SaveReplace ==
  /\ txn.phase = "save"
  /\ dbfile[SaveTarget].part = "complete"
  /\ dbfile' = IF dbfile.tmp.part = "absent" THEN dbfile
               ELSE [json |-> dbfile.tmp, tmp |-> Raw(EmptyDb, "absent")]
  /\ db' = LoadDb(dbfile'.json)
  /\ txn' = IdleTxn
  /\ UNCHANGED <<fs, cache, recipe, lock, procs, blk, bin>>

\* list_installed, verify, doctor: db = load_db(), no lock taken; one
\* reader is followed at a time, through the save it meets
ReadDb(r) ==
  /\ \A q \in Readers : ~procs[q].got
  /\ procs' = [procs EXCEPT ![r] = [got |-> TRUE, seen |-> dbfile.json,
                                     tmp |-> dbfile.tmp.part]]
  /\ UNCHANGED <<db, fs, cache, recipe, txn, lock, dbfile, blk, bin>>

\* the reader prints and exits
ReaderExit(r) ==
  /\ procs[r].got
  /\ procs' = [procs EXCEPT ![r] = NoRead]
  /\ UNCHANGED <<db, fs, cache, recipe, txn, lock, dbfile, blk, bin>>

NextSave ==
  \/ \E op \in {"install", "uninstall"}, n \in Pkgs, force \in BOOLEAN : SaveBegin(op, n, force)
  \/ SaveWrite
  \/ SaveReplace
  \/ \E r \in Readers : ReadDb(r)
  \/ \E r \in Readers : ReaderExit(r)
  \/ \E n \in Pkgs : EditRecipe(n)

SpecSave == InitSave /\ [][NextSave]_vars

(***************************************************************************)
(* Specification SpecBuild: the commands b (build only, no DB lock) and i  *)
(* (install under the DB lock) of two processes, package by package, with  *)
(* build_package step by step under the build lock of the package's id.    *)
(***************************************************************************)
NoSaw == [pkg |-> "absent", man |-> "absent"]

IdleBuilder ==
  [pc |-> "idle", cmd |-> "b", root |-> ZETA, order |-> <<>>, i |-> 1, mem |-> EmptyDb,
   pre |-> EmptyDb, status |-> "ok", started |-> 0, saw |-> NoSaw, manifest |-> FALSE]

InitBuild ==
  /\ db = EmptyDb
  /\ fs = EmptyDict
  /\ cache = {}
  /\ recipe = [n \in Pkgs |-> Versions(n)[1]]
  /\ txn = IdleTxn
  /\ lock = {}
  /\ procs = [p \in Procs |-> IdleBuilder]
  /\ dbfile = NoDbFiles
  /\ blk = {}
  /\ bin = NoBin

\* the package the loop of process p is at, and its id
CurPkg(p) == procs[p].order[procs[p].i]

CurId(p) == <<CurPkg(p), recipe[CurPkg(p)]>>

\* pkg_path.exists() and man_path.exists()
BothExist(b) == b.pkg # "absent" /\ b.man # "absent"

\* json.loads(man_path.read_text()) with except Exception: manifest = {},
\* then manifest.get("entries")
ManifestRead(b) == b.man = "complete"

\* a file written in place: zstd -o pkg_path, man_path.write_text
WriteInPlace(part) == IF part = "partial" THEN "complete" ELSE "partial"

\* main: cmd b or i; resolve_with_deps and topo_sort (i: after db_lock opens
\* the lock file)
BStart(p, c, n) ==
  /\ procs[p].pc \in {"idle", "done"}
  /\ Started(procs, Procs) < MaxCmds
  /\ procs' = [procs EXCEPT ![p] =
        [IdleBuilder EXCEPT !.pc = IF c = "b" THEN "bloop" ELSE "waiting",
                            !.cmd = c, !.root = n,
                            !.order = TopoSort(ResolveWithDeps(n)).order,
                            !.started = procs[p].started + 1]]
  /\ UNCHANGED <<db, fs, cache, recipe, txn, lock, dbfile, blk, bin>>

\* cmd b: for full in order: build_package(...)
BLoop(p) ==
  /\ procs[p].pc = "bloop"
  /\ procs' = [procs EXCEPT ![p].pc =
                  IF procs[p].i > Len(procs[p].order) THEN "done" ELSE "bwait"]
  /\ UNCHANGED <<db, fs, cache, recipe, txn, lock, dbfile, blk, bin>>

\* cmd i: the head of  for p in order  with the test of the cache, which
\* holds no build lock
ILoop(p) ==
  /\ procs[p].pc = "loaded"
  /\ IF procs[p].i > Len(procs[p].order)
       THEN procs' = [procs EXCEPT ![p].pc = "ran"]
       ELSE LET b    == bin[CurId(p)]
                n    == CurPkg(p)
                same == n \in DOMAIN procs[p].mem.installed
                          /\ procs[p].mem.installed[n].version = recipe[n]
            IN  procs' = [procs EXCEPT
                  ![p].saw = [pkg |-> b.pkg, man |-> b.man],
                  ![p].i = IF BothExist(b) /\ same THEN @ + 1 ELSE @,
                  ![p].pc = IF BothExist(b) /\ same THEN "loaded"
                            ELSE IF BothExist(b) /\ ManifestRead(b) THEN "install"
                            ELSE "bwait"]
  /\ UNCHANGED <<db, fs, cache, recipe, txn, lock, dbfile, blk, bin>>

\* cmd i: db = load_db() under the DB lock
ILoad(p) ==
  /\ procs[p].pc = "locked"
  /\ procs' = [procs EXCEPT ![p].pc = "loaded", ![p].mem = db, ![p].pre = db]
  /\ UNCHANGED <<db, fs, cache, recipe, txn, lock, dbfile, blk, bin>>

\* the processes that hold locks/<id>.lock
BuildHolders(id) == {p \in Procs : <<id, p>> \in blk}

\* a build lock that is granted while another process holds it
BAcquireShared(p) ==
  /\ procs[p].pc = "bwait"
  /\ blk' = blk \cup {<<CurId(p), p>>}
  /\ procs' = [procs EXCEPT ![p].pc = "bheld"]
  /\ UNCHANGED <<db, fs, cache, recipe, txn, lock, dbfile, bin>>

\* build_lock(meta.id): fcntl.flock(LOCK_EX) on locks/<id>.lock
BAcquire(p) ==
  /\ procs[p].pc = "bwait"
  /\ BuildHolders(CurId(p)) = {}
  /\ blk' = blk \cup {<<CurId(p), p>>}
  /\ procs' = [procs EXCEPT ![p].pc = "bheld"]
  /\ UNCHANGED <<db, fs, cache, recipe, txn, lock, dbfile, bin>>

\* a build_package that never looks into the cache
BEnterNoCache(p) ==
  /\ procs[p].pc = "bheld"
  /\ procs' = [procs EXCEPT ![p].pc = "bbuild"]
  /\ bin' = [bin EXCEPT ![CurId(p)].work = "clean"]
  /\ UNCHANGED <<db, fs, cache, recipe, txn, lock, dbfile, blk>>

\* build_package under the lock: a hit of the cache returns the manifest,
\* otherwise build/<id>/ is wiped and made anew
BEnter(p) ==
  /\ procs[p].pc = "bheld"
  /\ LET b == bin[CurId(p)]
     IN  IF BothExist(b)
           THEN /\ procs' = [procs EXCEPT ![p].pc = "brelease",
                                          ![p].manifest = ManifestRead(b)]
                /\ bin' = bin
           ELSE /\ procs' = [procs EXCEPT ![p].pc = "bbuild"]
                /\ bin' = [bin EXCEPT ![CurId(p)].work = "clean"]
  /\ UNCHANGED <<db, fs, cache, recipe, txn, lock, dbfile, blk>>

\* what the build system leaves in build/<id>/dest: files, nothing at all
\* (it exits with success all the same), or a failed command
BuildOutcomes == {"built", "empty", "broken"}

\* fetch_source, apply_patches and the build system fill build/<id>/dest, or
\* fail with SystemExit
BCompile(p, out) ==
  /\ procs[p].pc = "bbuild"
  /\ bin' = [bin EXCEPT ![CurId(p)].work = out]
  /\ procs' = IF out = "broken"
                THEN [procs EXCEPT ![p].pc = "brelease", ![p].status = "fatal"]
                ELSE [procs EXCEPT ![p].pc = "bpack"]
  /\ UNCHANGED <<db, fs, cache, recipe, txn, lock, dbfile, blk>>

\* package_destdir: tar -cf - . | zstd -o pkg_path
BPack(p) ==
  /\ procs[p].pc = "bpack"
  /\ bin' = [bin EXCEPT ![CurId(p)].pkg = WriteInPlace(@)]
  /\ procs' = [procs EXCEPT ![p].pc = IF bin'[CurId(p)].pkg = "complete" THEN "bman" ELSE @]
  /\ UNCHANGED <<db, fs, cache, recipe, txn, lock, dbfile, blk>>

\* man_path.write_text(json.dumps(manifest)); the manifest of an empty
\* DESTDIR is a whole file with no entries
BMan(p) ==
  /\ procs[p].pc = "bman"
  /\ bin' = [bin EXCEPT ![CurId(p)].man =
                IF @ # "partial" THEN "partial"
                ELSE IF bin[CurId(p)].work = "empty" THEN "noentries" ELSE "complete"]
  /\ IF bin'[CurId(p)].man # "partial"
       THEN /\ procs' = [procs EXCEPT ![p].pc = "brelease",
                                      ![p].manifest = ManifestRead(bin'[CurId(p)])]
            /\ cache' = cache \cup {ArtifactPath(CurPkg(p), recipe[CurPkg(p)])}
       ELSE UNCHANGED <<procs, cache>>
  /\ UNCHANGED <<db, fs, recipe, txn, lock, dbfile, blk>>

\* a build lock that only the normal end of the build section gives back
BReleaseNoFinally(p) ==
  /\ procs[p].pc = "brelease"
  /\ blk' = IF procs[p].status = "ok" THEN blk \ {<<CurId(p), p>>} ELSE blk
  /\ procs' = [procs EXCEPT
        ![p].status = IF procs[p].cmd = "i" /\ ~procs[p].manifest THEN "fatal" ELSE @,
        ![p].i = IF procs[p].cmd = "b" /\ procs[p].status = "ok" THEN @ + 1 ELSE @,
        ![p].pc = IF procs[p].cmd = "b"
                    THEN (IF procs[p].status = "ok" THEN "bloop" ELSE "done")
                  ELSE IF procs[p].status = "ok" /\ procs[p].manifest THEN "install"
                  ELSE "ran"]
  /\ UNCHANGED <<db, fs, cache, recipe, txn, lock, dbfile, bin>>

\* an i loop that goes on to the next package when a build has failed
BReleaseContinue(p) ==
  /\ procs[p].pc = "brelease"
  /\ blk' = blk \ {<<CurId(p), p>>}
  /\ procs' = [procs EXCEPT
        ![p].status = IF procs[p].cmd = "i" THEN "ok" ELSE @,
        ![p].i = IF procs[p].cmd = "i" /\ ~(procs[p].status = "ok" /\ procs[p].manifest)
                   THEN @ + 1
                 ELSE IF procs[p].cmd = "b" /\ procs[p].status = "ok" THEN @ + 1 ELSE @,
        ![p].pc = IF procs[p].cmd = "b"
                    THEN (IF procs[p].status = "ok" THEN "bloop" ELSE "done")
                  ELSE IF procs[p].status = "ok" /\ procs[p].manifest THEN "install"
                  ELSE "loaded"]
  /\ UNCHANGED <<db, fs, cache, recipe, txn, lock, dbfile, bin>>

\* finally: flock(LOCK_UN) of the build lock; then b goes to the next
\* package, and i installs what was built or ends with SystemExit
BRelease(p) ==
  /\ procs[p].pc = "brelease"
  /\ blk' = blk \ {<<CurId(p), p>>}
  /\ procs' = [procs EXCEPT
        ![p].status = IF procs[p].cmd = "i" /\ ~procs[p].manifest THEN "fatal" ELSE @,
        ![p].i = IF procs[p].cmd = "b" /\ procs[p].status = "ok" THEN @ + 1 ELSE @,
        ![p].pc = IF procs[p].cmd = "b"
                    THEN (IF procs[p].status = "ok" THEN "bloop" ELSE "done")
                  ELSE IF procs[p].status = "ok" /\ procs[p].manifest THEN "install"
                  ELSE "ran"]
  /\ UNCHANGED <<db, fs, cache, recipe, txn, lock, dbfile, bin>>

\* cmd i: install_binary of the package, save_db included
IInstall(p) ==
  /\ procs[p].pc = "install"
  /\ LET n == CurPkg(p)
         s == [mem |-> procs[p].mem, db |-> db, fs |-> fs, cache |-> cache,
               status |-> "ok", kept |-> {}]
     IN  \E r \in {InstallBinary(s, n, NewRecord(n, recipe[n], Depends(n),
                        BuiltManifest(n, recipe[n]), n = procs[p].root,
                        ArtifactPath(n, recipe[n])), FALSE, TRUE)} :
           /\ db' = r.db
           /\ fs' = r.fs
           /\ procs' = [procs EXCEPT ![p].mem = r.mem, ![p].status = r.status,
                                     ![p].manifest = FALSE,
                                     ![p].i = IF r.status = "ok" THEN @ + 1 ELSE @,
                                     ![p].pc = IF r.status = "ok" THEN "loaded" ELSE "ran"]
  /\ UNCHANGED <<cache, recipe, txn, lock, dbfile, blk, bin>>

NextBuild ==
  \/ \E p \in Procs, c \in {"b", "i"}, n \in Pkgs : BStart(p, c, n)
  \/ \E p \in Procs : BLoop(p)
  \/ \E p \in Procs : LockAcquire(p)
  \/ \E p \in Procs : ILoad(p)
  \/ \E p \in Procs : ILoop(p)
  \/ \E p \in Procs : BAcquire(p)
  \/ \E p \in Procs : BEnter(p)
  \/ \E p \in Procs, out \in BuildOutcomes : BCompile(p, out)
  \/ \E p \in Procs : BPack(p)
  \/ \E p \in Procs : BMan(p)
  \/ \E p \in Procs : BRelease(p)
  \/ \E p \in Procs : IInstall(p)
  \/ \E p \in Procs : LockRelease(p)

SpecBuild == InitBuild /\ [][NextBuild]_vars

\* what process p does once its command has started
Step(p) ==
  \/ BLoop(p) \/ ILoad(p) \/ ILoop(p) \/ BEnter(p)
  \/ (\E out \in BuildOutcomes : BCompile(p, out))
  \/ BPack(p) \/ BMan(p) \/ BRelease(p) \/ IInstall(p) \/ LockRelease(p)

\* two commands started side by side, one in each process
BStartOnce(p, c, n) ==
  /\ procs[p].started = 0
  /\ BStart(p, c, n)

NextPair ==
  \/ \E p \in Procs, c \in {"b", "i"}, n \in Pkgs : BStartOnce(p, c, n)
  \/ \E p \in Procs : LockAcquire(p)
  \/ \E p \in Procs : BAcquire(p)
  \/ \E p \in Procs : Step(p)

\* fair scheduling: a process that can go on does, and flock grants a lock
\* that is free again and again to the process that waits for it
SpecBuildFair ==
  /\ InitBuild
  /\ [][NextPair]_vars
  /\ \A p \in Procs : WF_vars(Step(p))
  /\ \A p \in Procs : SF_vars(LockAcquire(p)) /\ SF_vars(BAcquire(p))

(***************************************************************************)
(* Specification SpecTopo: resolve_with_deps and topo_sort over every      *)
(* recipe tree of three packages whose recipes name one another in         *)
(* depends, followed by the builds of cmd b.  Here recipe[n] is the recipe *)
(* of n with its depends list.                                             *)
(***************************************************************************)
Nodes == {"a", "b", "c"}

\* the longest depends list of a recipe
MaxDeps == 2

\* the depends lists of at most k names
RECURSIVE DepLists(_)
DepLists(k) ==
  IF k = 0 THEN {<<>>}
  ELSE DepLists(k - 1) \cup
       {Append(q, n) : q \in {x \in DepLists(k - 1) : Len(x) = k - 1}, n \in Nodes}

Trees == [Nodes -> [version : {"1.0"}, depends : DepLists(MaxDeps)]]

IdleResolver ==
  [pc |-> "start", root |-> "a", metas |-> <<>>, order |-> <<>>, i |-> 1, status |-> "ok"]

InitTopo ==
  /\ db = EmptyDb
  /\ fs = EmptyDict
  /\ cache = {}
  /\ recipe \in Trees
  /\ txn = IdleTxn
  /\ lock = {}
  /\ procs \in {[IdleResolver EXCEPT !.root = n] : n \in Nodes}
  /\ dbfile = NoDbFiles
  /\ blk = {}
  /\ bin = NoBin

\* resolve_with_deps over the tree: _rec returns at a key of metas, else
\* loads the recipe, stores it and descends into its depends
RECURSIVE RecIn(_, _, _), RecListIn(_, _, _, _)
RecIn(tree, metas, p) ==
  IF InSeq(metas, p) THEN metas
  ELSE RecListIn(tree, Append(metas, p), tree[p].depends, 1)

RecListIn(tree, metas, deps, i) ==
  IF i > Len(deps) THEN metas
  ELSE RecListIn(tree, RecIn(tree, metas, deps[i]), deps, i + 1)

ResolveWithDepsIn(tree, root) == RecIn(tree, <<>>, root)

RECURSIVE DfsIn(_, _, _, _), DfsListIn(_, _, _, _, _)
\* a search that appends a node before it has visited the node's depends
DfsInPreorder(tree, t, keys, n) ==
  IF t.cycle \/ n \in t.perm THEN t
  ELSE IF n \in t.temp THEN [t EXCEPT !.cycle = TRUE]
  ELSE
    LET deps == IF InSeq(keys, n) THEN tree[n].depends ELSE <<>>
        t1   == DfsListIn(tree, [t EXCEPT !.temp = @ \cup {n}, !.order = Append(@, n)],
                          keys, deps, 1)
    IN  IF t1.cycle THEN t1
        ELSE [t1 EXCEPT !.temp = @ \ {n}, !.perm = @ \cup {n}]

\* a search that returns from a node marked temp as from one marked perm
DfsInNoCycle(tree, t, keys, n) ==
  IF t.cycle \/ n \in t.perm \/ n \in t.temp THEN t
  ELSE
    LET deps == IF InSeq(keys, n) THEN tree[n].depends ELSE <<>>
        t1   == DfsListIn(tree, [t EXCEPT !.temp = @ \cup {n}], keys, deps, 1)
    IN  IF t1.cycle THEN t1
        ELSE [t1 EXCEPT !.temp = @ \ {n}, !.perm = @ \cup {n}, !.order = Append(@, n)]

\* topo_sort's dfs(n) with graph[name] = list(m.depends) for the keys of metas
DfsIn(tree, t, keys, n) ==
  IF t.cycle \/ n \in t.perm THEN t
  ELSE IF n \in t.temp THEN [t EXCEPT !.cycle = TRUE]
  ELSE
    LET deps == IF InSeq(keys, n) THEN tree[n].depends ELSE <<>>
        t1   == DfsListIn(tree, [t EXCEPT !.temp = @ \cup {n}], keys, deps, 1)
    IN  IF t1.cycle THEN t1
        ELSE [t1 EXCEPT !.temp = @ \ {n}, !.perm = @ \cup {n}, !.order = Append(@, n)]

DfsListIn(tree, t, keys, ds, i) ==
  IF i > Len(ds) \/ t.cycle THEN t
  ELSE DfsListIn(tree, DfsIn(tree, t, keys, ds[i]), keys, ds, i + 1)

TopoSortIn(tree, keys) ==
  DfsListIn(tree, [temp |-> {}, perm |-> {}, order |-> <<>>, cycle |-> FALSE],
            keys, keys, 1)

\* metas = resolve_with_deps(pkg_full)
TResolve ==
  /\ procs.pc = "start"
  /\ procs' = [procs EXCEPT !.metas = ResolveWithDepsIn(recipe, procs.root),
                             !.pc = "resolved"]
  /\ UNCHANGED <<db, fs, cache, recipe, txn, lock, dbfile, blk, bin>>

\* order = topo_sort(metas), or SystemExit at a cycle
TSort ==
  /\ procs.pc = "resolved"
  /\ LET t == TopoSortIn(recipe, procs.metas)
     IN  procs' = IF t.cycle
                    THEN [procs EXCEPT !.status = "fatal", !.pc = "done"]
                    ELSE [procs EXCEPT !.order = t.order, !.pc = "sorted"]
  /\ UNCHANGED <<db, fs, cache, recipe, txn, lock, dbfile, blk, bin>>

\* resolve_and_build: for p in order: build_package(...)
TBuild ==
  /\ procs.pc = "sorted"
  /\ IF procs.i > Len(procs.order)
       THEN /\ procs' = [procs EXCEPT !.pc = "done"]
            /\ cache' = cache
       ELSE /\ procs' = [procs EXCEPT !.i = @ + 1]
            /\ cache' = BuildPackage(cache, procs.order[procs.i],
                                      recipe[procs.order[procs.i]].version)
  /\ UNCHANGED <<db, fs, recipe, txn, lock, dbfile, blk, bin>>

NextTopo ==
  \/ TResolve
  \/ TSort
  \/ TBuild

SpecTopo == InitTopo /\ [][NextTopo]_vars

\* the command is a single process that runs on until it ends
SpecTopoFair == SpecTopo /\ WF_vars(NextTopo)

(***************************************************************************)
(* Specification SpecUpgrade: i, u and uninstall over a recipe tree in     *)
(* which the recipe of any package, app/foo included, can get a newer      *)
(* version.                                                                *)
(***************************************************************************)
\* a version newer than every version of Versions(n)
NewerVersion == "9.9"

\* the user edits the recipe of n to the newer version
EditRecipeNewer(n) ==
  /\ recipe[n] # NewerVersion
  /\ recipe' = [recipe EXCEPT ![n] = NewerVersion]
  /\ UNCHANGED <<dbfile, blk, bin, db, fs, cache, txn, lock, procs>>

NextUpgrade ==
  \/ \E n \in Pkgs : CmdInstall(n, FALSE)
  \/ CmdUpgrade
  \/ \E n \in Pkgs : CmdUninstall(n)
  \/ \E n \in Pkgs : EditRecipeNewer(n)

SpecUpgrade == Init /\ [][NextUpgrade]_vars

(***************************************************************************)
(* Specification SpecRollback: i, uninstall and rollback, with the user    *)
(* editing recipes and deleting artifacts from the binary cache.           *)
(***************************************************************************)
\* the user deletes bin/<id>-<version>.tar.zst
UserCleanCache(a) ==
  /\ a \in cache
  /\ cache' = cache \ {a}
  /\ UNCHANGED <<dbfile, blk, bin, db, fs, recipe, txn, lock, procs>>

NextRollback ==
  \/ \E n \in Pkgs : CmdInstall(n, FALSE)
  \/ \E n \in Pkgs, force \in BOOLEAN : CmdRollback(n, force)
  \/ \E n \in Pkgs : CmdUninstall(n)
  \/ \E n \in Pkgs : EditRecipe(n)
  \/ \E a \in Ids : UserCleanCache(a)

SpecRollback == Init /\ [][NextRollback]_vars

(***************************************************************************)
(* Specification SpecVerify: i and verify, with the user editing recipes   *)
(* and overwriting, deleting, replacing by a symlink or by a directory the *)
(* files of the packages.                                                  *)
(***************************************************************************)
\* what lies at a symlink target outside the tree: the hash of a regular
\* file, or "none" for a target that does not exist
ExtContent(t) == IF t = "/ext/z10" THEN "z10" ELSE "none"

LinkTargets == {"/ext/z", "/ext/z10"}

\* Path.exists(), Path.is_file() and sha256_file(), which follow a symlink
PathExists(fsx, p) ==
  LExists(fsx, p) /\ (fsx[p].kind = "symlink" => ExtContent(fsx[p].data) # "none")

PathIsFile(fsx, p) ==
  /\ LExists(fsx, p)
  /\ \/ fsx[p].kind = "file"
     \/ fsx[p].kind = "symlink" /\ ExtContent(fsx[p].data) # "none"

Sha256File(fsx, p) == IF fsx[p].kind = "symlink" THEN ExtContent(fsx[p].data) ELSE fsx[p].data

\* Path.is_symlink(), which does not
PathIsSymlink(fsx, p) == LExists(fsx, p) /\ fsx[p].kind = "symlink"

\* a loop that does not hash the files
EntryProblemNoHash(fsx, info, p) ==
  IF info.type = "file"
    THEN ~PathExists(fsx, p) \/ ~PathIsFile(fsx, p)
  ELSE IF info.type = "symlink"
    THEN ~PathIsSymlink(fsx, p) \/ fsx[p].data # info.target
  ELSE FALSE

\* one iteration of verify's loop over the entries: problems += 1
EntryProblem(fsx, info, p) ==
  IF info.type = "file"
    THEN ~PathExists(fsx, p) \/ ~PathIsFile(fsx, p) \/ Sha256File(fsx, p) # info.sha256
  ELSE IF info.type = "symlink"
    THEN ~PathIsSymlink(fsx, p) \/ fsx[p].data # info.target
  ELSE FALSE

\* the problems verify counts over its targets
VerifyProblems(d, fsx, targets) ==
  {x \in targets \X Paths :
     /\ x[2] \in DOMAIN d.installed[x[1]].manifest
     /\ EntryProblem(fsx, d.installed[x[1]].manifest[x[2]], x[2])}

\* verify(pkg_full); full = "" is verify without a package
Verify(d, fsx, full) ==
  IF full # "" /\ full \notin DOMAIN d.installed THEN "fatal"
  ELSE IF VerifyProblems(d, fsx, IF full = "" THEN DOMAIN d.installed ELSE {full}) # {}
    THEN "fatal"
  ELSE "ok"

\* cmd verify: the DB is loaded without the lock and nothing is written; the
\* process ends with the verdict as its exit status
CmdVerify(full) ==
  /\ procs' = [cmd |-> "verify", pkg |-> full, status |-> Verify(db, fs, full)]
  /\ UNCHANGED <<dbfile, blk, bin, db, fs, cache, recipe, txn, lock>>

VerifyPaths == {"/d/f", "/d/l"}

\* the user deletes a file or a symlink
UserDelete(p) ==
  /\ LExists(fs, p) /\ fs[p].kind # "dir"
  /\ fs' = Del(fs, p)
  /\ UNCHANGED <<dbfile, blk, bin, db, cache, recipe, txn, lock, procs>>

\* the user puts a symlink in the place of a file or of a symlink
UserLink(p, t) ==
  /\ LExists(fs, p) /\ fs[p].kind # "dir"
  /\ fs' = Put(fs, p, LinkF(t))
  /\ UNCHANGED <<dbfile, blk, bin, db, cache, recipe, txn, lock, procs>>

\* the user puts a directory in the place of a file or of a symlink
UserMkdir(p) ==
  /\ LExists(fs, p) /\ fs[p].kind # "dir"
  /\ fs' = Put(fs, p, DirF)
  /\ UNCHANGED <<dbfile, blk, bin, db, cache, recipe, txn, lock, procs>>

NextVerify ==
  \/ \E n \in Pkgs : CmdInstall(n, FALSE)
  \/ \E n \in Pkgs \cup {""} : CmdVerify(n)
  \/ \E n \in Pkgs : EditRecipe(n)
  \/ \E p \in UserPaths : UserWrite(p)
  \/ \E p \in VerifyPaths : UserDelete(p)
  \/ \E p \in VerifyPaths, t \in LinkTargets : UserLink(p, t)
  \/ \E p \in VerifyPaths : UserMkdir(p)

SpecVerify == Init /\ [][NextVerify]_vars

(***************************************************************************)
(* Specification SpecDoctor: db.json as an earlier version of the program  *)
(* or an interrupted write left it (schema 1, 2 or 3, one of another       *)
(* schema, a file that is no JSON, no file), with i, r, doctor and the     *)
(* user cleaning the binary cache.                                         *)
(***************************************************************************)
\* records of an older DB: written before the artifact path or the manifest
\* were stored (rec.get("artifact") and rec.get("manifest") return None)
OldRecord(n, v, manifest, pkg_path) == NewRecord(n, v, Depends(n), manifest, TRUE, pkg_path)

NoPath == <<>>

OldRecords ==
  {OldRecord(ZETA, "1.0", BuiltManifest(ZETA, "1.0"), ArtifactPath(ZETA, "1.0")),
   OldRecord(ZETA, "1.0", BuiltManifest(ZETA, "1.0"), NoPath),
   OldRecord(ZETA, "1.0", EmptyDict, ArtifactPath(ZETA, "1.0"))}

OldInstalled == {EmptyDict} \cup {Put(EmptyDict, ZETA, r) : r \in OldRecords}

\* the owners a file can hold for an installed map: those of its manifests,
\* or those with one more entry that names a package long gone
OldOwners(inst) ==
  LET own == [p \in UNION {Owned(inst[n].manifest) : n \in DOMAIN inst} |-> ZETA]
  IN  {own, Put(own, "/d/a", FOO)}

OldHistory ==
  {EmptyDb.history,
   [EmptyDb.history EXCEPT ![ZETA] =
       <<OldRecord(ZETA, "1.1", BuiltManifest(ZETA, "1.1"), ArtifactPath(ZETA, "1.1"))>>]}

\* a key of a schema-1 file that is no package record
Junk == [generator |-> "pkg"]

\* the JSON documents db.json can hold.  A schema-1 document is the
\* installed map itself, next to other keys; a schema-2 document has no
\* history
Docs ==
  {[schema |-> 1, installed |-> Put(i, "generator", Junk), owners |-> EmptyDict,
    history |-> EmptyDb.history] : i \in OldInstalled}
  \cup UNION {{[schema |-> 2, installed |-> i, owners |-> o, history |-> EmptyDb.history]
                 : o \in OldOwners(i)} : i \in OldInstalled}
  \cup UNION {{[schema |-> k, installed |-> i, owners |-> o, history |-> h]
                 : o \in OldOwners(i), h \in OldHistory, k \in {3, 4}} : i \in OldInstalled}

\* a load_db that takes the owners of a schema-3 file only
LoadJsonOwners3(raw) ==
  LET doc == raw.data
  IN  IF raw.part # "complete" THEN EmptyDb
      ELSE IF doc.schema = 3
        THEN [installed |-> doc.installed, owners |-> doc.owners, history |-> doc.history]
      ELSE IF doc.schema = 2
        THEN [EmptyDb EXCEPT !.installed = doc.installed]
      ELSE IF doc.schema = 1
        THEN [EmptyDb EXCEPT !.installed =
                [k \in {x \in DOMAIN doc.installed : "version" \in DOMAIN doc.installed[x]}
                   |-> doc.installed[k]]]
      ELSE EmptyDb

\* load_db on the file as it is: a missing file and a file json.loads
\* rejects are the empty DB; schema 3 is taken as it is, schema 2 without a
\* history, schema 1 by lifting the records of the top level, any other
\* schema is the empty DB
LoadJson(raw) ==
  LET doc == raw.data
  IN  IF raw.part # "complete" THEN EmptyDb
      ELSE IF doc.schema = 3
        THEN [installed |-> doc.installed, owners |-> doc.owners, history |-> doc.history]
      ELSE IF doc.schema = 2
        THEN [EmptyDb EXCEPT !.installed = doc.installed, !.owners = doc.owners]
      ELSE IF doc.schema = 1
        THEN [EmptyDb EXCEPT !.installed =
                [k \in {x \in DOMAIN doc.installed : "version" \in DOMAIN doc.installed[x]}
                   |-> doc.installed[k]]]
      ELSE EmptyDb

\* the document save_db writes for the dict d
SaveJson(d) ==
  [schema |-> 3, installed |-> d.installed, owners |-> d.owners, history |-> d.history]

\* rec.get("artifact") is set and the file is not in the cache
ArtifactGone(rec, cch) == rec.artifact # NoPath /\ rec.artifact \notin cch

\* the issues doctor counts, loop by loop
DoctorIssues(d, cch) ==
  [artifact |-> {p \in DOMAIN d.installed : ArtifactGone(d.installed[p], cch)},
   manifest |-> {p \in DOMAIN d.installed : DOMAIN d.installed[p].manifest = {}},
   owners   |-> {path \in DOMAIN d.owners : d.owners[path] \notin DOMAIN d.installed},
   history  |-> {x \in Pkgs \X (1..HISTORY_LIMIT) :
                   /\ x[2] <= Len(d.history[x[1]])
                   /\ ArtifactGone(d.history[x[1]][x[2]], cch)}]

\* doctor(): SystemExit when issues > 0
Doctor(d, cch) ==
  LET n == DoctorIssues(d, cch)
  IN  IF Cardinality(n.artifact) + Cardinality(n.manifest)
         + Cardinality(n.owners) + Cardinality(n.history) > 0
        THEN "fatal" ELSE "ok"

\* what the files hold before the first command
InitDoctor ==
  /\ \E part \in {"absent", "partial", "complete"}, doc \in Docs :
        /\ part # "complete" => doc = SaveJson(EmptyDb)
        /\ dbfile = [json |-> Raw(doc, part), tmp |-> Raw(EmptyDb, "absent")]
  /\ db = LoadJson(dbfile.json)
  /\ fs = TarExtract(EmptyDict,
            IF ZETA \in DOMAIN db.installed THEN db.installed[ZETA].manifest ELSE EmptyDict)
  /\ cache \in SUBSET {ArtifactPath(ZETA, "1.0"), ArtifactPath(ZETA, "1.1")}
  /\ recipe = [n \in Pkgs |-> Versions(n)[1]]
  /\ txn = IdleTxn
  /\ lock = {}
  /\ procs = NoProcs
  /\ blk = {}
  /\ bin = NoBin

\* with db_lock(): db = load_db(), from db.json as it is
Loaded ==
  [mem |-> LoadJson(dbfile.json), db |-> [saved |-> FALSE], fs |-> fs, cache |-> cache,
   status |-> "ok", kept |-> {}]

\* the end of a command that started from Loaded: db.json is what its last
\* save_db wrote, or what it was
RanOn(s) ==
  /\ fs' = s.fs
  /\ cache' = s.cache
  /\ IF s.db = [saved |-> FALSE]
       THEN UNCHANGED <<db, dbfile>>
       ELSE /\ dbfile' = [dbfile EXCEPT !.json = Raw(SaveJson(s.db), "complete")]
            /\ db' = LoadJson(dbfile'.json)
  /\ procs' = [cmd |-> "run", status |-> s.status]
  /\ UNCHANGED <<blk, bin, recipe, txn, lock>>

DInstall(n) == RanOn(ResolveAndInstall(Loaded, n, FALSE, TRUE))

DUninstall(n) == RanOn(UninstallPackage(Loaded, n))

\* cmd doctor: the DB is loaded without the lock and nothing is written
CmdDoctor ==
  /\ procs' = [cmd |-> "doctor", status |-> Doctor(LoadJson(dbfile.json), cache)]
  /\ UNCHANGED <<dbfile, blk, bin, db, fs, cache, recipe, txn, lock>>

NextDoctor ==
  \/ \E n \in Pkgs : DInstall(n)
  \/ \E n \in Pkgs : DUninstall(n)
  \/ CmdDoctor
  \/ \E a \in Ids : UserCleanCache(a)

SpecDoctor == InitDoctor /\ [][NextDoctor]_vars

(***************************************************************************)
(* Specification SpecExtract: extract_source on a source tarball, member   *)
(* by member.  A member is its name (the components after the leading "/", *)
(* if it has one), its type and, for a hardlink or a symlink, its target.  *)
(* The extraction root is the fresh workdir build/<id>/.                   *)
(***************************************************************************)
MaxMembers == 2

MemberNames == {<<"a">>, <<"a", "b">>, <<"..", "e">>, <<"a", "..", "..", "e">>}

LinkNames == {<<"a">>, <<"..", "e">>}

Members ==
  {[name |-> n, abs |-> a, type |-> "file", link |-> <<>>, linkabs |-> FALSE]
      : n \in MemberNames, a \in BOOLEAN}
  \cup {[name |-> n, abs |-> a, type |-> t, link |-> l, linkabs |-> la]
      : n \in MemberNames, a \in BOOLEAN, t \in {"sym", "lnk"}, l \in LinkNames,
        la \in BOOLEAN}

RECURSIVE TarsOf(_)
TarsOf(k) ==
  IF k = 0 THEN {<<>>}
  ELSE TarsOf(k - 1) \cup {Append(t, m) : t \in {x \in TarsOf(k - 1) : Len(x) = k - 1},
                                            m \in Members}

\* ".." in Path(name).parts
HasDotDot(parts) == \E i \in 1..Len(parts) : parts[i] = ".."

\* is_relative_to((workdir / name).resolve(), base) in a workdir without
\* symlinks: the walk along the components never leaves the root
RECURSIVE Within(_, _)
Within(parts, depth) ==
  IF parts = <<>> THEN TRUE
  ELSE IF Head(parts) = ".."
    THEN depth > 0 /\ Within(Tail(parts), depth - 1)
  ELSE Within(Tail(parts), depth + 1)

\* (workdir / name).parent
DirOf(parts) == IF parts = <<>> THEN <<>> ELSE SubSeq(parts, 1, Len(parts) - 1)

\* one iteration of the loop over tf.getmembers(): TRUE when it raises
\* SystemExit.  name = m.name.lstrip("/") is the name without its leading "/"
Rejected(m) ==
  \/ HasDotDot(m.name)
  \/ ~Within(m.name, 0)
  \/ /\ m.type \in {"sym", "lnk"}
     /\ \/ m.linkabs
        \/ HasDotDot(m.link)
        \/ ~Within(DirOf(m.name) \o m.link, 0)

\* where tf.extractall(workdir) writes a member: os.path.join(workdir, m.name)
\* is m.name itself when m.name is absolute, unless the tarfile library runs
\* the "data" extraction filter, which strips the leading "/"
Destination(m, lib) ==
  [outside |-> (m.abs /\ lib = "trusted") \/ ~Within(m.name, 0), name |-> m.name]

Libs == {"trusted", "data"}

InitExtract ==
  /\ db = EmptyDb
  /\ fs = EmptyDict
  /\ cache = {}
  /\ recipe = [n \in Pkgs |-> Versions(n)[1]]
  /\ txn = IdleTxn
  /\ lock = {}
  /\ \E t \in TarsOf(MaxMembers), lib \in Libs :
        procs = [tar |-> t, lib |-> lib, pc |-> "check", i |-> 1, written |-> {},
                 status |-> "ok"]
  /\ dbfile = NoDbFiles
  /\ blk = {}
  /\ bin = NoBin

\* the loop over tf.getmembers(), one member a step
XCheck ==
  /\ procs.pc = "check" /\ procs.i <= Len(procs.tar)
  /\ procs' = IF Rejected(procs.tar[procs.i])
                THEN [procs EXCEPT !.pc = "done", !.status = "fatal"]
                ELSE [procs EXCEPT !.i = @ + 1]
  /\ UNCHANGED <<dbfile, blk, bin, db, fs, cache, recipe, txn, lock>>

\* the loop has ended: tf.extractall(workdir) starts
XOpen ==
  /\ procs.pc = "check" /\ procs.i > Len(procs.tar)
  /\ procs' = [procs EXCEPT !.pc = "extract", !.i = 1]
  /\ UNCHANGED <<dbfile, blk, bin, db, fs, cache, recipe, txn, lock>>

\* tf.extractall(workdir), one member a step
XExtract ==
  /\ procs.pc = "extract"
  /\ procs' = IF procs.i > Len(procs.tar)
                THEN [procs EXCEPT !.pc = "done"]
                ELSE [procs EXCEPT !.i = @ + 1,
                        !.written = @ \cup {Destination(procs.tar[procs.i], procs.lib)}]
  /\ UNCHANGED <<dbfile, blk, bin, db, fs, cache, recipe, txn, lock>>

NextExtract == XCheck \/ XOpen \/ XExtract

SpecExtract == InitExtract /\ [][NextExtract]_vars

(***************************************************************************)
(* Specification SpecDry: the commands of Spec, and the same commands with *)
(* --dry-run.  With dry_run, build_package skips the cache test and every  *)
(* write and returns the manifest {"entries": {}}.                         *)
(***************************************************************************)
\* what a command started with --dry-run has saved: nothing yet
Unsaved == [saved |-> FALSE]

DryStart == [Start EXCEPT !.db = Unsaved]

\* an install_binary that calls save_db whatever dry_run is
InstallBinaryDrySaves(s, full, rec, force) ==
  IF Conflict(s.mem, s.fs, full, rec.manifest, force)
    THEN [s EXCEPT !.status = "conflict"]
    ELSE [s EXCEPT !.mem = Commit(PushHistory(s.mem, full), full, rec),
                   !.db = Commit(PushHistory(s.mem, full), full, rec)]

\* install_binary(..., dry_run=True): the conflict loop and the history push
\* run, the install is logged, owners and installed are set in the loaded
\* dict, and save_db is not called
InstallBinaryDry(s, full, rec, force) ==
  IF Conflict(s.mem, s.fs, full, rec.manifest, force)
    THEN [s EXCEPT !.status = "conflict"]
    ELSE [s EXCEPT !.mem = Commit(PushHistory(s.mem, full), full, rec)]

\* the loop of resolve_and_install with dry_run: no package is skipped, and
\* the manifest is the empty one build_package returns
RECURSIVE InstallLoopDry(_, _, _, _, _)
InstallLoopDry(s, order, i, root, force) ==
  IF i > Len(order) \/ s.status # "ok" THEN s
  ELSE
    LET p   == order[i]
        rec == NewRecord(p, recipe[p], Depends(p), EmptyDict, p = root,
                         ArtifactPath(p, recipe[p]))
    IN  InstallLoopDry(InstallBinaryDry(s, p, rec, force), order, i + 1, root, force)

ResolveAndInstallDry(s, root, force) ==
  LET t == TopoSort(ResolveWithDeps(root))
  IN  IF t.cycle THEN [s EXCEPT !.status = "fatal"]
      ELSE InstallLoopDry(s, t.order, 1, root, force)

\* the loop of rebuild_all and of upgrade_changed with dry_run
RECURSIVE RebuildLoopDry(_, _, _, _)
RebuildLoopDry(s, keys, order, i) ==
  IF i > Len(order) \/ s.status # "ok" THEN s
  ELSE
    LET p   == order[i]
        explicit == IF p \in DOMAIN s.mem.installed
                      THEN s.mem.installed[p].explicit ELSE FALSE
        rec == NewRecord(p, recipe[p], Depends(p), EmptyDict, explicit,
                         ArtifactPath(p, recipe[p]))
    IN  IF ~InSeq(keys, p) THEN [s EXCEPT !.status = "crash"]
        ELSE RebuildLoopDry(InstallBinaryDry(s, p, rec, FALSE), keys, order, i + 1)

RebuildKeysDry(s, keys) ==
  LET t == TopoSort(keys)
  IN  IF keys = <<>> THEN s
      ELSE IF t.cycle THEN [s EXCEPT !.status = "fatal"]
      ELSE RebuildLoopDry(s, keys, t.order, 1)

\* uninstall_package(..., dry_run=True): every removal is logged only, and
\* the block that updates owners and installed and saves is skipped
UninstallPackageDry(s, full) ==
  IF full \notin DOMAIN s.mem.installed THEN [s EXCEPT !.status = "fatal"] ELSE s

\* rollback(..., dry_run=True)
RollbackDry(s, full, force) ==
  IF full \notin DOMAIN s.mem.installed \/ s.mem.history[full] = <<>>
    THEN [s EXCEPT !.status = "fatal"]
  ELSE
    LET target == Head(s.mem.history[full])
        rec    == NewRecord(full, target.version, target.depends, target.manifest,
                            target.explicit, target.artifact)
    IN  IF target.artifact \notin s.cache \/ DOMAIN target.manifest = {}
          THEN [s EXCEPT !.status = "fatal"]
          ELSE InstallBinaryDry([s EXCEPT !.mem = RollbackPrepare(s.mem, full)],
                                full, rec, force)

RECURSIVE UninstallAllDry(_, _, _)
UninstallAllDry(s, order, i) ==
  IF i > Len(order) \/ s.status # "ok" THEN s
  ELSE UninstallAllDry(UninstallPackageDry(s, order[i]), order, i + 1)

\* autoremove(dry_run=True)
AutoremoveDry(s) ==
  IF {p \in DOMAIN s.mem.installed : s.mem.installed[p].explicit} = {} THEN s
  ELSE UninstallAllDry(s, SortedKeys(Candidates(s.mem.installed)), 1)

DryCmds == {"i", "rb", "u", "rollback", "uninstall", "autoremove"}

\* main with --dry-run: the command c on the package n
DryRun(c, n, force) ==
  IF c = "i" THEN ResolveAndInstallDry(DryStart, n, force)
  ELSE IF c = "rb" THEN RebuildKeysDry(DryStart, SortedKeys(DOMAIN db.installed))
  ELSE IF c = "u"
    THEN RebuildKeysDry(DryStart, SortedKeys({m \in DOMAIN db.installed :
                                                db.installed[m].version # recipe[m]}))
  ELSE IF c = "rollback" THEN RollbackDry(DryStart, n, force)
  ELSE IF c = "uninstall" THEN UninstallPackageDry(DryStart, n)
  ELSE AutoremoveDry(DryStart)

\* the process of a --dry-run command ends: db.json is what the command
\* saved, if it saved
CmdDry(c, n, force) ==
  LET r == DryRun(c, n, force)
  IN  /\ db' = IF r.db = Unsaved THEN db ELSE r.db
      /\ fs' = r.fs
      /\ cache' = r.cache
      /\ procs' = [cmd |-> c, pkg |-> n, dry_run |-> TRUE, status |-> r.status]
      /\ UNCHANGED <<dbfile, blk, bin, recipe, txn, lock>>

NextDry ==
  \/ \E n \in Pkgs, force \in BOOLEAN : CmdInstall(n, force)
  \/ \E n \in Pkgs : CmdUninstall(n)
  \/ \E n \in Pkgs : EditRecipe(n)
  \/ \E p \in UserPaths : UserWrite(p)
  \/ \E c \in DryCmds, n \in Pkgs, force \in BOOLEAN : CmdDry(c, n, force)

SpecDry == Init /\ [][NextDry]_vars

(***************************************************************************)
(* Properties of the DB and of install_binary                              *)
(***************************************************************************)
VersionSet(n) == {Versions(n)[i] : i \in 1..Len(Versions(n))}

\* install_binary of the artifact of (n, v) called in the current state
TryInstall(n, v, force) ==
  InstallBinary(Start, n,
                NewRecord(n, v, Depends(n), BuiltManifest(n, v), TRUE, ArtifactPath(n, v)),
                force, TRUE)

\* C1: every file/symlink entry of every installed manifest is owned, in
\* owners, by that package; so no path is a file/symlink entry of two
\* installed packages
C1_OwnersCoverInstalled ==
  /\ \A n \in DOMAIN db.installed : \A p \in Owned(db.installed[n].manifest) :
        p \in DOMAIN db.owners /\ db.owners[p] = n
  /\ \A n \in DOMAIN db.installed : \A m \in DOMAIN db.installed :
        n # m => Owned(db.installed[n].manifest) \cap Owned(db.installed[m].manifest) = {}

\* two installed packages, one of them upgraded and rolled back, which has
\* left it an owner of a path of the version it no longer has
C1_Witness ==
  /\ {ZETA, FOO} \subseteq DOMAIN db.installed
  /\ db.installed[ZETA].version = "1.0"
  /\ db.history[ZETA] # <<>>
  /\ Head(db.history[ZETA]).version = "1.1"
  /\ "/d/g" \in DOMAIN db.owners

\* C2: every owners entry names an installed package and a file/symlink
\* entry of that package's installed manifest
C2_OwnersWithinInstalled ==
  \A p \in DOMAIN db.owners :
     /\ db.owners[p] \in DOMAIN db.installed
     /\ p \in Owned(db.installed[db.owners[p]].manifest)

\* C3: a path owned by another package is a conflict whatever force is; an
\* unowned path that exists on the filesystem is a conflict unless force is
\* set, and with force the install goes on and the path becomes the
\* installing package's
C3_ConflictDetection ==
  \A n \in Pkgs : \A v \in VersionSet(n) : \A force \in BOOLEAN :
    LET r      == TryInstall(n, v, force)
        mine   == Owned(BuiltManifest(n, v))
        others == {p \in mine : p \in DOMAIN db.owners /\ db.owners[p] # n}
        stray  == {p \in mine : p \notin DOMAIN db.owners /\ p \in DOMAIN fs}
    IN  /\ others # {} => r.status = "conflict"
        /\ (stray # {} /\ ~force) => r.status = "conflict"
        /\ (stray # {} /\ force /\ others = {}) =>
              /\ r.status # "conflict"
              /\ r.status = "ok" =>
                    \A p \in stray : p \in DOMAIN r.db.owners /\ r.db.owners[p] = n

\* a state in which one package meets a path of another owner and another
\* meets an unowned file that only force lets it take over
C3_Witness ==
  /\ TryInstall(FORK, "1.0", TRUE).status = "conflict"
  /\ "/d/f" \in DOMAIN db.owners /\ db.owners["/d/f"] = ZETA
  /\ TryInstall(ZETA, "1.1", FALSE).status = "conflict"
  /\ TryInstall(ZETA, "1.1", TRUE).status = "ok"
  /\ TryInstall(ZETA, "1.1", TRUE).db.owners["/d/g"] = ZETA
  /\ "/d/g" \notin DOMAIN db.owners

\* C4: an install that fails with a conflict has changed nothing: the
\* filesystem and installed, owners and history are as before it
C4_ConflictBeforeMutation ==
  \A n \in Pkgs : \A v \in VersionSet(n) : \A force \in BOOLEAN :
    LET r == TryInstall(n, v, force)
    IN  r.status = "conflict" => r.db = db /\ r.mem = db /\ r.fs = fs

\* an upgrade of an installed package that conflicts on a new path, with
\* files of its own on disk and a record that a history push would move
C4_Witness ==
  /\ ZETA \in DOMAIN db.installed
  /\ db.installed[ZETA].version = "1.0"
  /\ "/d/f" \in DOMAIN fs
  /\ TryInstall(ZETA, "1.1", FALSE).status = "conflict"

\* C7: a successful rollback of p installs the version at the head of
\* history[p] and leaves the version it replaced at the head of history[p];
\* after install v1, install v2: installed = v1 and history head = v2
C7_RollbackLaw ==
  \A n \in Pkgs : \A force \in BOOLEAN :
    LET r == Rollback(Start, n, force, TRUE)
    IN  (r.status = "ok" /\ n \in DOMAIN db.installed /\ db.history[n] # <<>>) =>
          /\ r.db.installed[n].version = Head(db.history[n]).version
          /\ r.db.history[n] # <<>>
          /\ Head(r.db.history[n]).version = db.installed[n].version

\* after install 1.0, install 1.1: a rollback that succeeds from here
C7_Witness ==
  /\ ZETA \in DOMAIN db.installed
  /\ db.installed[ZETA].version = "1.1"
  /\ db.history[ZETA] # <<>>
  /\ Head(db.history[ZETA]).version = "1.0"
  /\ Rollback(Start, ZETA, FALSE, TRUE).status = "ok"
  /\ Rollback(Start, ZETA, FALSE, TRUE).db.installed[ZETA].version = "1.0"

\* C8: an install over an existing record puts that record at the head of
\* history, the entries that were there follow in their order, and the list
\* is cut to HISTORY_LIMIT: in install (upgrade), in rebuild-all, and in the
\* install that rollback replays on the history it prepared
C8_HistoryPush ==
  /\ \A n \in DOMAIN db.installed : \A v \in VersionSet(n) : \A force \in BOOLEAN :
       LET r == TryInstall(n, v, force)
       IN  r.status = "ok" =>
             r.db.history[n] = Take(<<db.installed[n]>> \o db.history[n], HISTORY_LIMIT)
  /\ LET r == RebuildAll(Start, TRUE)
     IN  r.status = "ok" =>
           \A n \in DOMAIN db.installed :
              r.db.history[n] = Take(<<db.installed[n]>> \o db.history[n], HISTORY_LIMIT)
  /\ \A n \in DOMAIN db.installed : \A force \in BOOLEAN :
       LET r == Rollback(Start, n, force, TRUE)
           m == RollbackPrepare(db, n)
       IN  (r.status = "ok" /\ db.history[n] # <<>>) =>
             r.db.history[n] = Take(<<m.installed[n]>> \o m.history[n], HISTORY_LIMIT)

\* a full history of two different records over which a rebuild succeeds
C8_Witness ==
  /\ ZETA \in DOMAIN db.installed
  /\ Len(db.history[ZETA]) = HISTORY_LIMIT
  /\ db.history[ZETA][1] # db.history[ZETA][HISTORY_LIMIT]
  /\ db.installed[ZETA] # db.history[ZETA][1]
  /\ RebuildAll(Start, TRUE).status = "ok"

\* C9: history[n] never holds more than HISTORY_LIMIT records
C9_HistoryBounded ==
  \A n \in Pkgs : Len(db.history[n]) <= HISTORY_LIMIT

\* a full history onto which one more record is pushed
C9_Witness ==
  /\ ZETA \in DOMAIN db.installed
  /\ Len(db.history[ZETA]) = HISTORY_LIMIT
  /\ UpgradeChanged(Start, TRUE).status = "ok"
  /\ UpgradeChanged(Start, TRUE).db.installed[ZETA] # db.installed[ZETA]
  /\ Len(UpgradeChanged(Start, TRUE).db.history[ZETA]) = HISTORY_LIMIT

\* the files and symlinks of a filesystem, directories left out
NonDirs(fsx) == [p \in {q \in DOMAIN fsx : fsx[q].kind # "dir"} |-> fsx[p]]

\* C5: a staged install that aborts, by a failing step or by an interrupt,
\* leaves the filesystem either with the complete new package or as it was
\* before the install: old content back, and no file or symlink that was not
\* there (directories, which no rollback removes, are not compared)
C5_AbortLeavesOldOrNew ==
  txn.phase \in {"failed", "interrupted"} =>
    \/ NonDirs(fs) = NonDirs(txn.pre.fs)
    \/ NonDirs(fs) = NonDirs(CopyTreeAtomic(txn.pre.fs, txn.rec.manifest).fs)

\* C6: when a step of the apply phase raises, the backups taken so far are
\* put back, the install ends in a fatal error, and db.json is what it was
\* before the install
C6_ApplyErrorRollsBack ==
  txn.phase = "failed" =>
    /\ db = txn.pre.db
    /\ \A p \in DOMAIN txn.bk :
          /\ txn.bk[p] = txn.pre.fs[p]
          /\ p \in DOMAIN fs
          /\ fs[p] = txn.bk[p] \/ (txn.bk[p].kind = "file" /\ fs[p].kind = "symlink")

\* a failed upgrade that had pushed history in memory and had replaced a
\* file of the old version by different content
C6_Witness ==
  /\ txn.phase = "failed"
  /\ txn.mem # db
  /\ \E p \in DOMAIN txn.bk :
        /\ txn.rec.manifest[p].type = "file"
        /\ FileF(txn.rec.manifest[p].sha256) # txn.bk[p]
        /\ txn.i > 1
        /\ \E j \in 1..(txn.i - 1) : txn.order[j] = p

\* a command works on db.json as it is, and what it has saved is db.json
\* for as long as it holds the lock
NoLostUpdate ==
  \A p \in Procs :
     /\ (procs[p].pc = "loaded") => procs[p].mem = db
     /\ (procs[p].pc = "ran" /\ procs[p].status = "ok") => procs[p].mem = db

\* C10: db.json changes only in a step of a process that holds the lock, no
\* two processes hold the lock together, and every command works on the DB
\* it loaded under the lock, so that no saved change of another command is
\* lost
C10_LockedWrites ==
  [][/\ db' # db => \E p \in lock : procs[p].pc = "loaded" /\ procs'[p].pc = "ran"
     /\ Cardinality(lock') <= 1
     /\ NoLostUpdate']_vars

\* one command has saved its package while the other waited for the lock,
\* and the other, an uninstall of a different package, has now loaded a DB
\* that holds both
C10_Witness ==
  \E p \in Procs, q \in Procs :
     /\ p # q
     /\ procs[p].pc = "done" /\ procs[p].status = "ok" /\ procs[p].cmd = "i"
     /\ procs[q].pc = "loaded" /\ procs[q].cmd = "uninstall"
     /\ procs[q].root # procs[p].root
     /\ {procs[p].root, procs[q].root} \subseteq DOMAIN procs[q].mem.installed
     /\ procs[q].mem = db

\* C11: whatever a reader finds in db.json when it loads it without the
\* lock is a whole file (or no file, before the first save), and it holds
\* the DB as it was before the save in progress or as that save leaves it
C11_ReaderSeesWholeDb ==
  [][\A r \in Readers :
       (procs'[r] # procs[r] /\ procs'[r].got) =>
          /\ procs'[r].seen.part \in {"complete", "absent"}
          /\ procs'[r].seen.part = "absent" => db = EmptyDb
          /\ \/ LoadDb(procs'[r].seen) = db
             \/ txn.phase = "save" /\ LoadDb(procs'[r].seen) = txn.new]_vars

\* a reader that loaded db.json while db.tmp was half written with a DB that
\* differs from the one it got
C11_Witness ==
  \E r \in Readers :
     /\ procs[r].got
     /\ procs[r].tmp = "partial"
     /\ procs[r].seen.part = "complete"
     /\ txn.phase = "save"
     /\ procs[r].seen.data = txn.old
     /\ txn.new # txn.old
     /\ DOMAIN txn.old.installed # {}

\* the part of build_package that works on build/<id>/ and on the cache files
BuildSection == {"bheld", "bbuild", "bpack", "bman", "brelease"}

C13_CacheTestSeesWholeFiles ==
  \A p \in Procs :
     BothExist(procs[p].saw) => /\ procs[p].saw.pkg = "complete"
                                /\ procs[p].saw.man \in {"complete", "noentries"}

\* the build locks process p holds
BuildLocksOf(p) == {id \in Ids : <<id, p>> \in blk}

\* C14: a process that has ended its command, by success or by a fatal
\* error, holds no lock; no process waits for the DB lock with a build lock
\* in its hands; a process stops waiting for a lock only by getting it; and
\* under fair scheduling every command started comes to its end, so that no
\* process waits for a lock for ever and no set of commands deadlocks
C14_LocksReleasedNoDeadlock ==
  /\ [](\A p \in Procs : procs[p].pc \in {"idle", "done"} =>
                            p \notin lock /\ BuildLocksOf(p) = {})
  /\ [](\A p \in Procs : procs[p].pc \in {"waiting", "locked"} => BuildLocksOf(p) = {})
  /\ [][\A p \in Procs :
          /\ procs[p].pc = "waiting" /\ procs'[p].pc # "waiting"
                => procs'[p].pc = "locked" /\ p \in lock'
          /\ procs[p].pc = "bwait" /\ procs'[p].pc # "bwait"
                => procs'[p].pc = "bheld" /\ BuildHolders(CurId(p))' = {p}]_vars
  /\ <>[](\A p \in Procs : procs[p].pc \in {"idle", "done"})

\* an install that holds the DB lock waits for the build lock of an id that
\* the other process, a build that is about to fail, holds
C14_Witness ==
  \E p \in Procs, q \in Procs :
     /\ p # q
     /\ procs[p].cmd = "i" /\ p \in lock /\ procs[p].pc = "bwait"
     /\ procs[q].cmd = "b" /\ procs[q].pc = "brelease" /\ procs[q].status = "fatal"
     /\ CurId(q) = CurId(p)
     /\ BuildHolders(CurId(p)) = {q}

\* the positions of an i command between load_db and the end of its loop
ISection ==
  {"loaded", "bwait", "bheld", "bbuild", "bpack", "bman", "brelease", "install", "ran"}

\* the record of n in installed, or a mark when n is not installed
RecordOf(d, n) == IF n \in DOMAIN d.installed THEN <<d.installed[n]>> ELSE <<>>

\* C15: in an i run the order has every dependency before its dependents;
\* when the loop is at a package, every package before it in the order is
\* committed to the DB at the recipe's version, and no package from it on
\* has been installed by the run; so after a failed build or install the
\* failed package and all packages after it are as the run found them
C15_OrderedCommits ==
  \A p \in Procs :
     procs[p].cmd = "i" /\ procs[p].pc \in ISection =>
        LET o == procs[p].order
            k == procs[p].i
        IN  /\ \A j \in 1..Len(o) : \A d \in 1..Len(Depends(o[j])) :
                   \E m \in 1..(j - 1) : o[m] = Depends(o[j])[d]
            /\ \A j \in 1..Len(o) :
                   j < k => /\ RecordOf(db, o[j]) # <<>>
                            /\ db.installed[o[j]].version = recipe[o[j]]
                            /\ RecordOf(procs[p].mem, o[j]) = RecordOf(db, o[j])
            /\ \A j \in 1..Len(o) :
                   j >= k => RecordOf(db, o[j]) = RecordOf(procs[p].pre, o[j])

\* i app/foo whose dependency lib/zeta has failed: the run has ended at
\* lib/zeta and app/foo, after it in the order, is not installed
C15_Witness ==
  \E p \in Procs :
     /\ procs[p].cmd = "i" /\ procs[p].root = FOO /\ procs[p].pc = "ran"
     /\ procs[p].status # "ok"
     /\ procs[p].i = 1 /\ procs[p].order = <<ZETA, FOO>>
     /\ FOO \notin DOMAIN db.installed

\* a file on disk at a path of the manifest whose content is not the one the
\* manifest records
Modified(fsx, manifest, p) ==
  /\ p \in DOMAIN manifest /\ LExists(fsx, p)
  /\ fsx[p].kind = "file" /\ fsx[p].data # manifest[p].sha256

\* owners.get(p) == full
OwnedBy(owners, p, full) == p \in DOMAIN owners /\ owners[p] = full

\* C16: uninstalling an installed package leaves in place every file whose
\* content differs from the hash of the package's manifest and every file or
\* symlink whose owner is not the package; a modified file of the package is
\* in the report of preserved files and the uninstall ends without error
C16_UninstallPreserves ==
  \A n \in DOMAIN db.installed :
     LET r        == UninstallPackage(Start, n)
         manifest == db.installed[n].manifest
     IN  /\ r.status = "ok"
         /\ \A p \in DOMAIN fs :
               /\ fs[p].kind \in {"file", "symlink"}
               /\ Modified(fs, manifest, p) \/ ~OwnedBy(db.owners, p, n)
               => LExists(r.fs, p) /\ r.fs[p] = fs[p]
         /\ \A p \in DOMAIN fs :
               /\ Modified(fs, manifest, p) /\ manifest[p].type = "file"
               /\ OwnedBy(db.owners, p, n)
               => p \in r.kept

\* a package is installed and a file it owns has been modified since; its
\* uninstall keeps the file and reports it
C16_Witness ==
  \E n \in DOMAIN db.installed : \E p \in DOMAIN fs :
     /\ Modified(fs, db.installed[n].manifest, p)
     /\ OwnedBy(db.owners, p, n)
     /\ p \in UninstallPackage(Start, n).kept
     /\ LExists(UninstallPackage(Start, n).fs, p)
     /\ n \notin DOMAIN UninstallPackage(Start, n).db.installed

\* C17: when the uninstall of an installed package preserves a file that
\* was modified after the install, the file is still on disk, the package
\* is no longer in installed, and owners has no entry for the file's path
C17_PreservedOwnerRemoved ==
  \A n \in DOMAIN db.installed :
     LET r == UninstallPackage(Start, n)
     IN  \A p \in r.kept :
            /\ LExists(r.fs, p) /\ r.fs[p] = fs[p]
            /\ n \notin DOMAIN r.db.installed
            /\ p \notin DOMAIN r.db.owners

\* install_binary of n at the recipe's version as an explicit package
InstallOf(s, n, force) ==
  InstallBinary(s, n, NewRecord(n, recipe[n], Depends(n), BuiltManifest(n, recipe[n]),
                                TRUE, ArtifactPath(n, recipe[n])), force, TRUE)

\* the user overwrites w between two commands; "none": nothing is written
Overwrite(s, w) == IF w = "none" THEN s ELSE [s EXCEPT !.fs = Put(s.fs, w, FileF("user"))]

\* C18: from a state in which n is not installed, an install of n followed
\* by its uninstall leaves db.json (installed, owners, history) as it was
\* before the install, and every path the package owned as it was before
\* the install, except that a file the user modified between the two stays
\* on disk as the user left it
C18_InstallUninstallRoundTrip ==
  \A n \in Pkgs \ DOMAIN db.installed : \A force \in BOOLEAN :
     LET s1 == InstallOf(Start, n, force)
         files == {p \in Owned(BuiltManifest(n, recipe[n])) \cap UserPaths :
                     BuiltManifest(n, recipe[n])[p].type = "file"}
     IN  s1.status = "ok" =>
           \A w \in files \cup {"none"} :
              LET s2 == UninstallPackage(Overwrite(s1, w), n)
              IN  /\ s2.status = "ok"
                  /\ s2.db = db
                  /\ \A p \in Owned(BuiltManifest(n, recipe[n])) :
                        IF p = w
                          THEN LExists(s2.fs, p) /\ s2.fs[p] = FileF("user")
                          ELSE /\ LExists(s2.fs, p) <=> LExists(fs, p)
                               /\ LExists(fs, p) => s2.fs[p] = fs[p]

\* C19: after autoremove has completed, every package that was installed,
\* not explicit, and outside the closure of the explicit packages under
\* installed[p].depends is no longer installed, whatever packages are explicit
C19_AutoremoveRemovesOrphans ==
  LET r == Autoremove(Start)
  IN  r.status = "ok" =>
        \A p \in DOMAIN db.installed :
           ~db.installed[p].explicit /\ p \notin Required(db.installed)
             => p \notin DOMAIN r.db.installed

\* b is in installed[a].depends
DependsOn(installed, a, b) == a \in DOMAIN installed /\ InSeq(installed[a].depends, b)

\* p is an explicit installed package or is reached from one along depends
\* through installed packages (chains over the three packages have at most
\* two links)
Protected(installed, p) ==
  \E e \in DOMAIN installed :
     /\ installed[e].explicit
     /\ \/ p = e
        \/ DependsOn(installed, e, p)
        \/ \E m \in DOMAIN installed : DependsOn(installed, e, m) /\ DependsOn(installed, m, p)

C21_ExplicitAfterInstall ==
  \A n \in Pkgs : \A force \in BOOLEAN :
     LET r == ResolveAndInstall(Start, n, force, TRUE)
     IN  r.status = "ok" =>
           /\ n \in DOMAIN r.db.installed /\ r.db.installed[n].explicit
           /\ \A d \in DOMAIN r.db.installed \ {n} :
                 RecordOf(r.db, d) # RecordOf(db, d) => ~r.db.installed[d].explicit

\* the names in installed[n].depends that are not keys of installed
MissingDeps(d, n) ==
  {x \in Pkgs : n \in DOMAIN d.installed /\ InSeq(d.installed[n].depends, x)
                   /\ x \notin DOMAIN d.installed}

RECURSIVE ReachFrom(_, _)
ReachFrom(tree, S) ==
  LET more == S \cup {d \in Nodes : \E n \in S : InSeq(tree[n].depends, d)}
  IN  IF more = S THEN S ELSE ReachFrom(tree, more)

\* the names n depends on, directly or not
DepsBelow(tree, n) == ReachFrom(tree, {d \in Nodes : InSeq(tree[n].depends, d)})

\* a package reached from root depends on itself, directly or not
CycleFrom(tree, root) == \E x \in ReachFrom(tree, {root}) : x \in DepsBelow(tree, x)

\* C23: when no cycle is reached from the requested package, topo_sort
\* returns an order; the order holds each package of metas once, and each
\* package stands after every package it depends on, directly or not
C23_TopoOrder ==
  /\ procs.pc \in {"sorted", "done"} /\ ~CycleFrom(recipe, procs.root)
        => procs.status = "ok"
  /\ procs.pc \in {"sorted", "done"} /\ procs.status = "ok" =>
        LET o == procs.order
        IN  /\ Len(o) = Len(procs.metas)
            /\ {o[j] : j \in 1..Len(o)} = ReachFrom(recipe, {procs.root})
            /\ \A j \in 1..Len(o) : \A k \in 1..Len(o) : o[j] = o[k] => j = k
            /\ \A j \in 1..Len(o) : \A d \in DepsBelow(recipe, o[j]) :
                  \E m \in 1..(j - 1) : o[m] = d

\* a depends on b and c, b depends on c: the order is c, b, a
C23_Witness ==
  /\ procs.pc = "sorted" /\ procs.root = "a"
  /\ recipe["a"].depends = <<"b", "c">>
  /\ recipe["b"].depends = <<"c">>
  /\ recipe["c"].depends = <<>>
  /\ procs.order = <<"c", "b", "a">>

\* C24: when a cycle is reached from the requested package, the loading of
\* the recipes ends with each recipe loaded once, the command ends with the
\* fatal error of topo_sort, and nothing is built or installed
C24_CycleFailsBeforeBuild ==
  /\ [](CycleFrom(recipe, procs.root) =>
          /\ cache = {} /\ db = EmptyDb /\ fs = EmptyDict
          /\ procs.pc # "sorted"
          /\ procs.pc = "done" => procs.status = "fatal"
          /\ procs.pc # "start" =>
                /\ {procs.metas[j] : j \in 1..Len(procs.metas)} = ReachFrom(recipe, {procs.root})
                /\ Len(procs.metas) <= Cardinality(Nodes))
  /\ <>[](procs.pc = "done")

\* c depends on a, a on b and b on a: i c has ended with the cycle error
C24_Witness ==
  /\ procs.root = "c" /\ procs.pc = "done" /\ procs.status = "fatal"
  /\ recipe["c"].depends = <<"a">>
  /\ recipe["a"].depends = <<"b">>
  /\ recipe["b"].depends = <<"a">>
  /\ procs.metas = <<"c", "a", "b">>
  /\ cache = {}

\* the installed packages whose recipe carries another version
Changed(d) == {p \in DOMAIN d.installed : d.installed[p].version # recipe[p]}

\* C25: whatever packages are installed and however they depend on one
\* another, u does not die of an unhandled exception; and when it has
\* completed, every installed package whose recipe version differed is
\* installed at the recipe's version and every other record is as it was
C25_UpgradeChanged ==
  LET r == UpgradeChanged(Start, TRUE)
  IN  /\ r.status # "crash"
      /\ r.status = "ok" =>
            /\ \A p \in Changed(db) :
                  p \in DOMAIN r.db.installed /\ r.db.installed[p].version = recipe[p]
            /\ \A p \in Pkgs \ Changed(db) : RecordOf(r.db, p) = RecordOf(db, p)

\* the processes that are writing the artifact or the manifest of id
Packing(id) == {p \in Procs : procs[p].pc \in {"bpack", "bman"} /\ CurId(p) = id}

\* C26: once the artifact and the manifest of an id exist and the build that
\* wrote them has left its packaging steps, no step changes either file or
\* the build directory; and a build_package that finds both returns the
\* manifest read from the file and goes straight to the release of the
\* lock, without fetch, backend or packaging
C26_BuildIdempotent ==
  [][/\ \A id \in Ids :
          BothExist(bin[id]) /\ Packing(id) = {} => bin'[id] = bin[id]
     /\ \A p \in Procs :
          procs[p].pc = "bheld" /\ BothExist(bin[CurId(p)]) /\ procs'[p] # procs[p]
            => /\ procs'[p].pc = "brelease"
               /\ procs'[p].manifest = ManifestRead(bin[CurId(p)])
               /\ procs'[p].status = procs[p].status
               /\ bin' = bin /\ cache' = cache]_vars

\* a second build_package of an id whose artifact and manifest are complete
\* has taken the lock and has returned at the cache hit
C26_Witness ==
  \E p \in Procs :
     /\ procs[p].pc = "brelease" /\ procs[p].status = "ok" /\ procs[p].manifest
     /\ procs[p].started = 2 /\ procs[p].cmd = "b"
     /\ bin[CurId(p)] = [work |-> "built", pkg |-> "complete", man |-> "complete"]
     /\ \E q \in Procs \ {p} : procs[q].pc = "idle"

\* C27: a build whose backend has succeeded on an empty DESTDIR, like one
\* whose backend has failed, writes neither the artifact nor the manifest of
\* its id, and build_package ends with a fatal error
C27_EmptyDestdirFatal ==
  /\ \A id \in Ids :
        bin[id].work \in {"empty", "broken"} => bin[id].pkg = "absent" /\ bin[id].man = "absent"
  /\ \A p \in Procs :
        procs[p].pc \in {"bpack", "bman", "brelease"} /\ bin[CurId(p)].work \in {"empty", "broken"}
          => procs[p].pc = "brelease" /\ procs[p].status = "fatal"

\* C28: a rollback of a package that is not installed, that has an empty
\* history, or whose target's artifact is not in the binary cache, fails,
\* and leaves db.json (history included), the filesystem and the cache as
\* they were
C28_RollbackFailsClean ==
  \A n \in Pkgs : \A force \in BOOLEAN :
     LET r == Rollback(Start, n, force, TRUE)
     IN  \/ n \notin DOMAIN db.installed
         \/ db.history[n] = <<>>
         \/ Head(db.history[n]).artifact \notin cache
         => r.status = "fatal" /\ r.db = db /\ r.fs = fs /\ r.cache = cache

\* lib/zeta is installed with a record in its history whose artifact the
\* user has deleted from the cache: the rollback fails
C28_Witness ==
  /\ ZETA \in DOMAIN db.installed
  /\ db.history[ZETA] # <<>>
  /\ Head(db.history[ZETA]).version # db.installed[ZETA].version
  /\ Head(db.history[ZETA]).artifact \notin cache
  /\ Rollback(Start, ZETA, FALSE, TRUE).status = "fatal"

\* install_binary of n at the recipe's version in the given mode
InstallMode(s, n, force, use_staging) ==
  InstallBinary(s, n, NewRecord(n, recipe[n], Depends(n), BuiltManifest(n, recipe[n]),
                                TRUE, ArtifactPath(n, recipe[n])), force, use_staging)

\* C29: from the same DB, filesystem, manifest and force flag, the legacy
\* install ends in a conflict exactly when the staged install does, and when
\* both succeed they have committed the same installed, owners and history
\* and left the same files
C29_LegacyMatchesStaged ==
  \A n \in Pkgs : \A force \in BOOLEAN :
     LET a == InstallMode(Start, n, force, TRUE)
         b == InstallMode(Start, n, force, FALSE)
     IN  /\ a.status = "conflict" <=> b.status = "conflict"
         /\ b.status = "conflict" => b.db = db /\ b.fs = fs
         /\ a.status = "ok" /\ b.status = "ok" =>
               /\ b.db = a.db /\ b.mem = a.mem
               /\ b.fs = a.fs

\* an upgrade of lib/zeta that both modes carry out, with the replaced record
\* pushed onto the history, beside a package that both modes refuse
C29_Witness ==
  /\ ZETA \in DOMAIN db.installed /\ db.installed[ZETA].version # recipe[ZETA]
  /\ InstallMode(Start, ZETA, FALSE, FALSE).status = "ok"
  /\ InstallMode(Start, ZETA, FALSE, FALSE).db = InstallMode(Start, ZETA, FALSE, TRUE).db
  /\ InstallMode(Start, ZETA, FALSE, FALSE).db.history[ZETA] # db.history[ZETA]
  /\ InstallMode(Start, FORK, TRUE, FALSE).status = "conflict"

\* what a path leads to: nothing, for a path that is missing or a symlink to
\* nowhere; else the directory or the regular file found there, through a
\* symlink if the path is one
LeadsTo(fsx, p) ==
  IF ~LExists(fsx, p) THEN <<>>
  ELSE IF fsx[p].kind # "symlink" THEN <<fsx[p]>>
  ELSE IF ExtContent(fsx[p].data) = "none" THEN <<>>
  ELSE <<FileF(ExtContent(fsx[p].data))>>

\* an entry of a manifest that the filesystem does not match
Mismatch(fsx, manifest, p) ==
  \/ /\ manifest[p].type = "file"
     /\ LeadsTo(fsx, p) # <<FileF(manifest[p].sha256)>>
  \/ /\ manifest[p].type = "symlink"
     /\ ~(LExists(fsx, p) /\ fsx[p] = LinkF(manifest[p].target))

C31_DoctorComplete ==
  LET d == LoadJson(dbfile.json)
      n == DoctorIssues(d, cache)
      artifact == {p \in DOMAIN d.installed : d.installed[p].artifact \notin cache}
      manifest == {p \in DOMAIN d.installed : DOMAIN d.installed[p].manifest = {}}
      owners   == {path \in DOMAIN d.owners : d.owners[path] \notin DOMAIN d.installed}
      history  == {x \in Pkgs \X (1..(HISTORY_LIMIT + 1)) :
                     /\ x[2] <= Len(d.history[x[1]])
                     /\ d.history[x[1]][x[2]].artifact \notin cache}
  IN  /\ n.artifact = artifact /\ n.manifest = manifest
      /\ n.owners = owners /\ n.history = history
      /\ Doctor(d, cache) = "ok" <=>
           artifact = {} /\ manifest = {} /\ owners = {} /\ history = {}

\* C32: when db.json is no valid JSON, load_db returns the empty DB, a
\* command started then runs on the empty DB, and doctor ends with an error
C32_CorruptionSurfaced ==
  dbfile.json.part = "partial" =>
    /\ LoadJson(dbfile.json) = EmptyDb
    /\ \A n \in Pkgs : UninstallPackage(Loaded, n).status = "fatal"
    /\ \A n \in Pkgs : ResolveAndInstall(Loaded, n, TRUE, TRUE).status = "ok"
    /\ Doctor(LoadJson(dbfile.json), cache) = "fatal"

\* C33: load_db of a file of schema 1, 2 or 3 returns a DB with every
\* installed record of the file, with the owners of a file of schema 2 or 3
\* and the history of a file of schema 3; save_db of the loaded DB writes a
\* schema-3 document, and load_db of that document is the same DB
C33_MigrationPreserves ==
  LET doc == dbfile.json.data
      d   == LoadJson(dbfile.json)
  IN  dbfile.json.part = "complete" /\ doc.schema \in {1, 2, 3} =>
        /\ DOMAIN d.installed = (DOMAIN doc.installed) \cap Pkgs
        /\ \A n \in DOMAIN d.installed : d.installed[n] = doc.installed[n]
        /\ doc.schema \in {2, 3} => d.owners = doc.owners
        /\ doc.schema = 3 => d.history = doc.history
        /\ SaveJson(d).schema = 3
        /\ LoadJson(Raw(SaveJson(d), "complete")) = d

\* doctor has loaded a schema-1 file that holds lib/zeta next to a key that is
\* no record
C33_Witness ==
  /\ dbfile.json.part = "complete" /\ dbfile.json.data.schema = 1
  /\ DOMAIN dbfile.json.data.installed = {ZETA, "generator"}
  /\ DOMAIN db.installed = {ZETA}
  /\ procs # NoProcs /\ procs.cmd = "doctor"

\* a member the claim names: a ".." component in its name, a destination
\* outside the extraction root, or a hardlink or symlink whose target is
\* absolute, has a ".." component or leads outside the root from the
\* directory of the link
UnsafeMember(m, lib) ==
  \/ HasDotDot(m.name)
  \/ Destination(m, lib).outside
  \/ /\ m.type \in {"sym", "lnk"}
     /\ m.linkabs \/ HasDotDot(m.link) \/ ~Within(DirOf(m.name) \o m.link, 0)

\* C34: when a member of the tarball is unsafe, extract_source never writes a
\* member of the archive and ends with an error
C34_UnsafeTarNothingWritten ==
  (\E i \in 1..Len(procs.tar) : UnsafeMember(procs.tar[i], procs.lib)) =>
     /\ procs.written = {}
     /\ procs.pc # "extract"
     /\ procs.pc = "done" => procs.status = "fatal"

\* C35: every step of the staged apply that replaces a destination which
\* was a regular file or a symlink has stored that file, or that link's
\* target, in the backups of the operation
C35_BackupBeforeOverwrite ==
  [][\A p \in Paths :
       (/\ txn.phase = "apply" /\ txn.i <= Len(txn.order) /\ txn.order[txn.i] = p
        /\ LExists(fs, p) /\ fs[p].kind \in {"file", "symlink"}
        /\ txn'.phase = "apply" /\ txn'.i = txn.i + 1)
       => (p \in DOMAIN txn'.bk /\ txn'.bk[p] = fs[p])]_vars

\* C36: after a successful rollback of n the record rolled back to is no
\* longer in history[n], the record that was installed is in it exactly
\* once, and history[n] is as long as it was
C36_RollbackSwapsHead ==
  \A n \in Pkgs : \A force \in BOOLEAN :
     LET r == Rollback(Start, n, force, TRUE)
     IN  (/\ n \in DOMAIN db.installed /\ db.history[n] # <<>>
          /\ r.status = "ok")
         => LET h == r.db.history[n]
            IN  /\ \A i \in 1..Len(h) : h[i] # Head(db.history[n])
                /\ Cardinality({i \in 1..Len(h) : h[i] = db.installed[n]}) = 1
                /\ Len(h) = Len(db.history[n])

\* C37: no command makes installed[p].explicit false while p stays
\* installed: once true it is true until p is uninstalled
C37_ExplicitSticky ==
  [][\A n \in Pkgs :
       (/\ n \in DOMAIN db.installed /\ db.installed[n].explicit
        /\ n \in DOMAIN db'.installed)
       => db'.installed[n].explicit]_vars

\* C38: an install without force changes a file or symlink that exists on
\* the filesystem only if the path is a file/symlink entry of the installed
\* record of the package whose artifact brings it; a file that an uninstall
\* left in place is therefore not overwritten by the reinstall
C38_NoOverwriteWithoutForce ==
  \A n \in Pkgs :
     LET r == ResolveAndInstall(Start, n, FALSE, TRUE)
     IN  \A p \in DOMAIN fs :
            (fs[p].kind \in {"file", "symlink"} /\ (~LExists(r.fs, p) \/ r.fs[p] # fs[p]))
            => \E m \in DOMAIN db.installed :
                  /\ p \in Owned(db.installed[m].manifest)
                  /\ p \in Owned(BuiltManifest(m, recipe[m]))

\* C39: the order topo_sort returns for the packages rebuild-all and upgrade
\* give it (the installed ones, or the changed ones) holds every one of them
\* once and no other name
C39_TopoSortPermutation ==
  \A keys \in {SortedKeys(DOMAIN db.installed), SortedKeys(Changed(db))} :
     LET t == TopoSort(keys)
     IN  ~t.cycle =>
           /\ Len(t.order) = Len(keys)
           /\ \A i \in 1..Len(keys) : InSeq(t.order, keys[i])
           /\ \A i \in 1..Len(t.order) : InSeq(keys, t.order[i])

\* C40: a command run with --dry-run (i, uninstall, rollback, autoremove,
\* rb, u) saves no DB and leaves the filesystem and the binary cache as they
\* were, whatever way it ends
C40_DryRunChangesNothing ==
  \A c \in DryCmds : \A n \in Pkgs : \A force \in BOOLEAN :
     LET r == DryRun(c, n, force)
     IN  r.db = Unsaved /\ r.fs = fs /\ r.cache = cache

\* i app/foo --dry-run has ended without an error where app/foo was not
\* installed and lib/zeta was, and the loaded dict had been changed
C40_Witness ==
  /\ procs # NoProcs /\ procs.cmd = "i" /\ procs.pkg = FOO /\ procs.status = "ok"
  /\ DOMAIN db.installed = {ZETA}
  /\ DryRun("i", FOO, FALSE).mem # db
  /\ DryRun("uninstall", ZETA, FALSE).status = "ok"

====
